---- MODULE Spec2Model ----
(***************************************************************************)
(* People counter: the frame loop of cv/video_processing/pipeline.py       *)
(* (run_people_counter) with the geometry primitives of geometry.py, the   *)
(* room registry of room_config.py and the room construction at the end of *)
(* door_detection.py (detect_doors_from_frame).                            *)
(*                                                                         *)
(* Python None is modelled as the empty sequence <<>> and a present value  *)
(* v as <<v>>; a dict is a function whose DOMAIN is the set of its keys.   *)
(***************************************************************************)
EXTENDS Integers, Sequences, FiniteSets, TLC

VARIABLES
    args,                 \* argparse.Namespace of parse_args()
    fps,                  \* cap.get(CAP_PROP_FPS) or 30.0
    first_frame,          \* TRUE while the frame read before the loop is pending
    door_oracle,          \* what door detection sees in the frame held now, once computed
    rooms,                \* list[RoomConfig]: the active boundaries
    doors_locked,
    track_states,         \* dict[int, TrackState]: tid -> last_side_by_room
    room_stats,           \* dict[str, RoomStats]
    prev_room_signature,
    frame_index,
    frames_read,          \* frames delivered by the capture so far
    pc,                   \* position in run_people_counter
    boxes,                \* (ids, xyxy) of the frame being processed
    i,                    \* index of the track sample in boxes
    j,                    \* index of the room in rooms
    foot,                 \* <<foot_x, foot_y>> of the sample being processed
    step,                 \* locals of the last room iteration: tid, room, foot, sides, direction
    first_sample,         \* the sample being processed created its TrackState
    invalidated,          \* the refresh of this frame cleared track_states
    overlay,              \* per-room text drawn on the last frame shown
    printed,              \* lines of the final room summary
    trace,                \* history, when recorded: <<tid, room_id>> -> sides classified so far
    crossings,            \* history, when recorded: <<tid, room_id>> -> counters increased
                          \* since track_states was last cleared
    legacy,               \* locals of main() of people_counter.py run on the same video:
                          \* rooms, doors_locked, track_states, room_stats, prev_room_signature
    passes_run,           \* history: calls of detect_doors_from_frame so far
    last_pass,            \* history: number of rooms the latest call returned, once one was made
    call,                 \* a function called on its own: its name and arguments
    result,               \* what that call returned or raised, once it has
    should_stop,          \* should_stop["value"] of run_detector and of run_uploader
    previous_person_count,  \* Detector._previous_person_count
    detection,            \* the DetectionResult of the frame being handled
    reads,                \* calls of cap.read() so far
    processed,            \* history: the DetectionResult of every frame processed
    risk_calls,           \* history: every call of check_room_high_risk, with its frame
    console,              \* history: what the detector printed
    env,                  \* environment variables read by uploader.py, and the kind of source
    batch,                \* batch of run_uploader: the frames waiting to be posted
    total_sent_frames,
    post_count,
    posting,              \* locals of post_batch_with_retry while it runs
    escaped,              \* the exception propagating out of the loop of run_uploader
    appended,             \* history: frames appended to batch
    posts,                \* history: every call of post_batch_with_retry that returned
    loop_exit,            \* history: batch, cause and should_stop when the capture loop ended
    finalized             \* history: len(posts) when finalize_video_with_retry was called

vars == << args, fps, first_frame, door_oracle, rooms, doors_locked, track_states,
           room_stats, prev_room_signature, frame_index, frames_read, pc, boxes, i, j,
           foot, step, first_sample, invalidated, overlay, printed, trace, crossings, legacy,
           passes_run,
           last_pass, call, result, should_stop, previous_person_count, detection,
           reads, processed, risk_calls, console, env, batch, total_sent_frames,
           post_count, posting, escaped, appended, posts, loop_exit, finalized >>

\* The state of run_uploader, but for should_stop and reads
uploader_vars == << env, batch, total_sent_frames, post_count, posting, escaped, appended,
                    posts, loop_exit, finalized >>

\* The state of run_detector
detector_vars == << should_stop, previous_person_count, detection, reads, processed,
                    risk_calls, console >>

(***************************************************************************)
(* Bounds                                                                  *)
(***************************************************************************)
\* Longest video, in frames.
MaxFrames == 4

\* Most detections handed to one call of nms_detections.
MaxDetections == 3

NoneVal == <<>>
Some(v) == << v >>
IsNone(o) == o = <<>>
Get(o) == o[1]

EmptyMap == [k \in {} |-> 0]
Put(f, k, v) == [x \in (DOMAIN f) \cup {k} |-> IF x = k THEN v ELSE f[x]]

Max(a, b) == IF a >= b THEN a ELSE b
Min(a, b) == IF a <= b THEN a ELSE b

Sides == {-1, 0, 1}
Directions == {"down", "up"}

(***************************************************************************)
(* geometry.py                                                             *)
(***************************************************************************)
\* a < num / den and a > num / den for den # 0, in exact arithmetic
LessThanRatio(a, num, den) == IF den > 0 THEN a * den < num ELSE a * den > num
MoreThanRatio(a, num, den) == IF den > 0 THEN a * den > num ELSE a * den < num

\* The test against the gate's y-value without its margin: no dead zone around the line.
side_of_gate_nodeadzone(x, y, x1, y1, x2, y2, margin) ==
    LET dx == x2 - x1
        num == (x - x1) * (y2 - y1)
    IN  IF x < Min(x1, x2) - margin \/ x > Max(x1, x2) + margin THEN 0
        ELSE IF dx = 0 THEN 0
        ELSE IF LessThanRatio(y - y1, num, dx) THEN -1
        ELSE IF MoreThanRatio(y - y1, num, dx) THEN 1
        ELSE 0

side_of_gate(x, y, x1, y1, x2, y2, margin) ==
    LET min_x == Min(x1, x2)
        max_x == Max(x1, x2)
        dx == x2 - x1
        \* y_on_gate = y1 + ((x - x1) / dx) * (y2 - y1) = y1 + num / dx
        num == (x - x1) * (y2 - y1)
    IN  IF x < min_x - margin \/ x > max_x + margin THEN 0
        ELSE IF dx = 0
        THEN IF x < x1 - margin THEN -1
             ELSE IF x > x1 + margin THEN 1
             ELSE 0
        ELSE IF LessThanRatio(y - y1 + margin, num, dx) THEN -1
        ELSE IF MoreThanRatio(y - y1 - margin, num, dx) THEN 1
        ELSE 0

\* Labels swapped.
\* Every transition taken as a crossing downwards.
crossing_direction_down(prev_side, curr_side) == "down"

crossing_direction_swapped(prev_side, curr_side) ==
    IF prev_side = -1 /\ curr_side = 1 THEN "up"
    ELSE IF prev_side = 1 /\ curr_side = -1 THEN "down"
    ELSE "None"

crossing_direction(prev_side, curr_side) ==
    IF prev_side = -1 /\ curr_side = 1 THEN "down"
    ELSE IF prev_side = 1 /\ curr_side = -1 THEN "up"
    ELSE "None"

clamp_segment(x1, x2, width) ==
    LET cx1 == Max(0, Min(width, x1))
        cx2 == Max(0, Min(width, x2))
    IN  IF cx1 > cx2 THEN << cx2, cx1 >> ELSE << cx1, cx2 >>

(***************************************************************************)
(* models.py                                                               *)
(***************************************************************************)
RoomConfig(id, gx1, gy1, gx2, gy2, dir, margin, occupancy, thickness) ==
    [room_id |-> id, gate_x1 |-> gx1, gate_y1 |-> gy1, gate_x2 |-> gx2, gate_y2 |-> gy2,
     direction |-> dir, line_margin |-> margin, initial_occupancy |-> occupancy,
     line_thickness |-> thickness]

RoomStats == [entered |-> 0, left |-> 0]

\* TrackState(): last_side_by_room = {}
TrackState == EmptyMap

(***************************************************************************)
(* cli.py: the parsed arguments.  door_refresh_seconds is held in          *)
(* hundredths of a second, the IoU thresholds and the ratios in hundredths.*)
(***************************************************************************)
DefaultArgs ==
    [rooms_config |-> NoneVal, auto_detect_doors |-> FALSE,
     lock_doors_on_detect |-> FALSE, door_refresh_seconds |-> Some(100),
     door_refresh_frames |-> 30, direction |-> "down", line_margin |-> 6,
     initial_occupancy |-> 0, line |-> NoneVal, line_x1 |-> NoneVal,
     line_x2 |-> NoneVal, line_thickness |-> 2, show |-> FALSE,
     max_doors |-> 4, door_min_width |-> 80, door_line_offset |-> 6,
     door_nms_iou |-> 45, door_negative_iou |-> 40, door_max_height_ratio |-> 93,
     door_require_edge_threshold |-> FALSE, door_split_wide_boxes |-> FALSE,
     door_split_ratio |-> 135]

\* The video: frame size of the capture.
Video == [width |-> 640, height |-> 480]

\* Command lines of the runs explored, each with the fps of its video.
Runs ==
    { [args |-> [DefaultArgs EXCEPT !.line = Some(300), !.show = TRUE], fps |-> 30],
      [args |-> [DefaultArgs EXCEPT !.line = Some(300), !.direction = "up",
                                    !.initial_occupancy = 2,
                                    !.line_x1 = Some(700), !.line_x2 = Some(0)],
       fps |-> 30],
      [args |-> [DefaultArgs EXCEPT !.rooms_config = Some(1)], fps |-> 30],
      [args |-> [DefaultArgs EXCEPT !.rooms_config = Some(2), !.auto_detect_doors = TRUE],
       fps |-> 30],
      [args |-> [DefaultArgs EXCEPT !.auto_detect_doors = TRUE], fps |-> 1],
      [args |-> [DefaultArgs EXCEPT !.auto_detect_doors = TRUE, !.direction = "up",
                                    !.door_refresh_seconds = Some(5)],
       fps |-> 30],
      [args |-> [DefaultArgs EXCEPT !.auto_detect_doors = TRUE,
                                    !.lock_doors_on_detect = TRUE, !.line = Some(200)],
       fps |-> 1],
      [args |-> [DefaultArgs EXCEPT !.auto_detect_doors = TRUE, !.door_refresh_frames = 2],
       fps |-> 30] }

\* JSON values: a list, an object and a string.
JList(items) == [kind |-> "list", items |-> items]
JObj(obj) == [kind |-> "dict", obj |-> obj]
JStr(val) == [kind |-> "str", val |-> val]

\* Contents of the rooms-config files explored, as json.load returns them.  The runs of
\* the frame loop use the first two.
ConfigFiles ==
    << JList(<< JObj([room_id |-> "lobby", gate_x1 |-> 0, gate_y1 |-> 300, gate_x2 |-> 640,
                      gate_y2 |-> 300]),
                JObj([id |-> "hall", line |-> 300, x1 |-> 350, direction |-> "up",
                      initial_occupancy |-> 1]) >>),
       JList(<< JObj([room_id |-> "closet", gate_x1 |-> 400, gate_y1 |-> 100,
                      gate_x2 |-> 400, gate_y2 |-> 400, line_margin |-> 6,
                      line_thickness |-> 0]) >>),
       JObj([rooms |-> JList(<< JObj([line |-> 250]) >>)]),
       JList(<< JObj([id |-> "a", line |-> 300, x1 |-> 100]) >>),
       JList(<< >>),
       JObj([name |-> JStr("plan")]),
       JObj([rooms |-> JList(<< >>)]),
       JStr("lobby"),
       JList(<< JObj([room_id |-> "a", line |-> 300]), JStr("b") >>),
       JList(<< JObj([room_id |-> "a", line |-> 300]),
                JObj([room_id |-> "b", gate_x1 |-> 0, gate_y1 |-> 300, gate_x2 |-> 640]) >>),
       JList(<< JObj([room_id |-> "a", line |-> 300, direction |-> "left"]) >>),
       JList(<< JObj([line |-> 300, direction |-> "sideways"]), JStr("b") >>) >>

\* What a door-detection pass can accept in a frame: gate lines <<x1, y1, x2, y2>>
\* in the order the candidates are accepted (confidence descending).
DoorPasses ==
    { << >>,
      << << 100, 300, 300, 300 >> >>,
      << << 100, 310, 300, 290 >> >>,
      << << 400, 300, 600, 300 >>, << 100, 300, 300, 300 >> >> }

\* Person boxes <<x1, y1, x2, y2>> the tracker can report; x1 + x2 is even, so the
\* foot point (x1 + x2) / 2 is an integer.
PersonBoxes ==
    { << 180, 150, 220, 250 >>, << 180, 250, 220, 350 >>, << 180, 200, 220, 302 >>,
      << 480, 250, 520, 350 >>, << 480, 150, 520, 250 >> }

TrackIds == {1, 2}

\* Tracker outputs of one frame: the (ids, xyxy) pairs, possibly none.
PeopleLists ==
    { << >> }
    \cup { << [tid |-> t, xyxy |-> b] >> : t \in TrackIds, b \in PersonBoxes }
    \cup { << [tid |-> 1, xyxy |-> << 180, 150, 220, 250 >>],
              [tid |-> 2, xyxy |-> << 180, 250, 220, 350 >>] >> }

RoomName(idx) == << "room_1", "room_2", "room_3", "room_4" >>[idx]

GetOr(item, k, d) == IF k \in DOMAIN item THEN item[k] ELSE d

(***************************************************************************)
(* door_detection.py: box_iou_xyxy and nms_detections.  A detection is the *)
(* tuple <<conf, box, prompt>> with conf in hundredths and box the tuple   *)
(* <<x1, y1, x2, y2>>; an IoU is the exact fraction <<inter, denom>> and a *)
(* threshold is in hundredths.                                             *)
(***************************************************************************)
box_iou_xyxy(a, b) ==
    LET inter_x1 == Max(a[1], b[1])
        inter_y1 == Max(a[2], b[2])
        inter_x2 == Min(a[3], b[3])
        inter_y2 == Min(a[4], b[4])
        iw == Max(0, inter_x2 - inter_x1)
        ih == Max(0, inter_y2 - inter_y1)
        inter == iw * ih
        a_area == Max(0, a[3] - a[1]) * Max(0, a[4] - a[2])
        b_area == Max(0, b[3] - b[1]) * Max(0, b[4] - b[2])
        denom == a_area + b_area - inter
    IN  IF inter <= 0 THEN << 0, 1 >>
        ELSE IF denom <= 0 THEN << 0, 1 >>
        ELSE << inter, denom >>

\* iou >= threshold for the fraction iou and the threshold in hundredths
IouAtLeast(iou, threshold) == iou[1] * 100 >= threshold * iou[2]

\* iou > threshold
IouAbove(iou, threshold) == iou[1] * 100 > threshold * iou[2]

\* Descending order by sorting ascending and reversing: equal confidences change places.
RECURSIVE InsertByConfTiesReversed(_, _)
InsertByConfTiesReversed(sorted, d) ==
    IF sorted = << >> THEN << d >>
    ELSE IF d[1] >= sorted[Len(sorted)][1]
         THEN Append(InsertByConfTiesReversed(SubSeq(sorted, 1, Len(sorted) - 1), d),
                     sorted[Len(sorted)])
         ELSE Append(sorted, d)

RECURSIVE SortByConfTiesReversed(_)
SortByConfTiesReversed(ds) ==
    IF ds = << >> THEN << >>
    ELSE InsertByConfTiesReversed(SortByConfTiesReversed(SubSeq(ds, 1, Len(ds) - 1)),
                                  ds[Len(ds)])

\* d goes after every detection whose confidence is not smaller
RECURSIVE InsertByConf(_, _)
InsertByConf(sorted, d) ==
    IF sorted = << >> THEN << d >>
    ELSE IF d[1] > sorted[Len(sorted)][1]
         THEN Append(InsertByConf(SubSeq(sorted, 1, Len(sorted) - 1), d), sorted[Len(sorted)])
         ELSE Append(sorted, d)

\* sorted(detections, key=lambda it: it[0], reverse=True): stable
RECURSIVE SortByConf(_)
SortByConf(ds) ==
    IF ds = << >> THEN << >>
    ELSE InsertByConf(SortByConf(SubSeq(ds, 1, Len(ds) - 1)), ds[Len(ds)])

\* The loop over items with a candidate suppressed only by an IoU above the threshold.
RECURSIVE NmsLoopStrict(_, _, _)
NmsLoopStrict(items, kept, iou_threshold) ==
    IF items = << >> THEN kept
    ELSE IF \E k \in DOMAIN kept : IouAbove(box_iou_xyxy(items[1][2], kept[k][2]), iou_threshold)
         THEN NmsLoopStrict(Tail(items), kept, iou_threshold)
         ELSE NmsLoopStrict(Tail(items), Append(kept, items[1]), iou_threshold)

nms_detections_strict(detections, iou_threshold) ==
    NmsLoopStrict(SortByConf(detections), << >>, iou_threshold)

\* for cand in items: continue if any kept box has IoU >= iou_threshold, else keep it
RECURSIVE NmsLoop(_, _, _)
NmsLoop(items, kept, iou_threshold) ==
    IF items = << >> THEN kept
    ELSE IF \E k \in DOMAIN kept :
                IouAtLeast(box_iou_xyxy(items[1][2], kept[k][2]), iou_threshold)
         THEN NmsLoop(Tail(items), kept, iou_threshold)
         ELSE NmsLoop(Tail(items), Append(kept, items[1]), iou_threshold)

nms_detections(detections, iou_threshold) ==
    IF detections = << >> THEN << >>
    ELSE NmsLoop(SortByConf(detections), << >>, iou_threshold)

\* Boxes the door model can report.  BoxWideLeft and BoxWideRight have IoU 9/20,
\* BoxLeft and BoxMiddle have IoU 1/2, BoxFar overlaps BoxWideRight a little.
BoxWideLeft == << 100, 100, 390, 400 >>
BoxWideRight == << 210, 100, 500, 400 >>
BoxLeft == << 100, 100, 250, 400 >>
BoxMiddle == << 150, 100, 300, 400 >>
BoxFar == << 450, 50, 600, 400 >>
BoxDouble == << 100, 200, 500, 400 >>
BoxWindow == << 200, 100, 500, 400 >>
\* BoxMirror and BoxLeft have IoU 2/5.
BoxMirror == << 150, 100, 350, 400 >>

\* Detections of collect_prompt_detections.
Detections ==
    { << 90, BoxLeft, "door" >>, << 80, BoxMiddle, "doorway" >>, << 80, BoxWideLeft, "door" >>,
      << 70, BoxWideRight, "door" >>, << 70, BoxFar, "doorway" >>, << 60, BoxLeft, "doorway" >>,
      << 85, BoxDouble, "entrance" >> }

\* Lists of at most n detections.
RECURSIVE DetectionLists(_)
DetectionLists(n) ==
    IF n = 0 THEN { << >> }
    ELSE DetectionLists(n - 1)
         \cup { Append(ds, d) : ds \in { l \in DetectionLists(n - 1) : Len(l) = n - 1 },
                                d \in Detections }

\* IoU thresholds, in hundredths: --door-nms-iou 0, the default 0.45, and 0.5.
NmsThresholds == {0, 45, 50}

(***************************************************************************)
(* door_detection.py: the rooms a detection pass returns for the gates it  *)
(* accepted.                                                               *)
(***************************************************************************)
\* The rooms left in the order of acceptance.
KeepOrder(rs) == rs

RECURSIVE InsertByMid(_, _)
InsertByMid(sorted, r) ==
    \* stable: r goes after every room whose midpoint is not greater
    IF sorted = << >> THEN << r >>
    ELSE IF r.gate_x1 + r.gate_x2 < sorted[Len(sorted)].gate_x1 + sorted[Len(sorted)].gate_x2
         THEN Append(InsertByMid(SubSeq(sorted, 1, Len(sorted) - 1), r), sorted[Len(sorted)])
         ELSE Append(sorted, r)

RECURSIVE SortByMid(_)
SortByMid(rs) ==
    IF rs = << >> THEN << >>
    ELSE InsertByMid(SortByMid(SubSeq(rs, 1, Len(rs) - 1)), rs[Len(rs)])

detect_doors_from_frame(a, gates) ==
    LET accepted == [k \in DOMAIN gates |->
                        RoomConfig("", gates[k][1], gates[k][2], gates[k][3], gates[k][4],
                                   a.direction, a.line_margin, a.initial_occupancy,
                                   Max(1, a.line_thickness))]
        sorted == SortByMid(accepted)
    IN  [k \in DOMAIN sorted |-> [sorted[k] EXCEPT !.room_id = RoomName(k)]]

(***************************************************************************)
(* door_detection.py: a detection pass, from the detections of the door    *)
(* model to the rooms and the candidate records.  A frame is its size and  *)
(* what the edge analysis finds in it: edges gives, for the boxes in which *)
(* a threshold line is found, the rounded heights <<ly_left, ly_right>> of *)
(* the line in the box, and dividers gives, for the boxes with a central   *)
(* vertical divider, the column peak_idx of the divider.                   *)
(***************************************************************************)
Clamp(v, lo, hi) == Max(lo, Min(hi, v))

fit_gate_line_from_box(frame, x1, y1, x2, y2, line_offset) ==
    LET cx1 == Clamp(x1, 0, frame.width - 1)
        cx2 == Clamp(x2, 0, frame.width - 1)
        cy1 == Clamp(y1, 0, frame.height - 1)
        cy2 == Clamp(y2, 0, frame.height - 1)
        ly == Clamp(cy2 - line_offset, 0, frame.height - 1)
        box == << cx1, cy1, cx2, cy2 >>
    IN  IF cx2 <= cx1 \/ cy2 <= cy1 THEN << cx1, ly, cx2, ly, "fallback" >>
        ELSE IF box \notin DOMAIN frame.edges THEN << cx1, ly, cx2, ly, "fallback" >>
        ELSE << cx1, Clamp(cy1 + frame.edges[box][1] - line_offset, 0, frame.height - 1),
                cx2, Clamp(cy1 + frame.edges[box][2] - line_offset, 0, frame.height - 1),
                "edge" >>

split_wide_detection_box(frame, box, min_width, split_ratio) ==
    LET x1 == Clamp(box[1], 0, frame.width - 1)
        x2 == Clamp(box[3], 0, frame.width - 1)
        y1 == Clamp(box[2], 0, frame.height - 1)
        y2 == Clamp(box[4], 0, frame.height - 1)
        bw == x2 - x1
        bh == y2 - y1
        left == bw \div 4
        right == (3 * bw) \div 4
        min_part == Max(12, min_width)
    IN  IF bw <= 0 \/ bh <= 0 THEN << box >>
        ELSE IF bw * 100 < Max(100, split_ratio) * bh THEN << box >>
        ELSE IF bw < 8 THEN << box >>
        ELSE IF right <= left + 2 THEN << box >>
        ELSE IF box \notin DOMAIN frame.dividers THEN << box >>
        ELSE LET split_x == x1 + frame.dividers[box]
             IN  IF split_x - x1 < min_part \/ x2 - split_x < min_part THEN << box >>
                 ELSE << << x1, y1, split_x, y2 >>, << split_x, y1, x2, y2 >> >>

\* split_detections: every detection replaced by its parts
RECURSIVE SplitDetections(_, _, _)
SplitDetections(a, frame, detections) ==
    IF detections = << >> THEN << >>
    ELSE LET parts == split_wide_detection_box(frame, detections[1][2], a.door_min_width,
                                               a.door_split_ratio)
         IN  [k \in DOMAIN parts |-> << detections[1][1], parts[k], detections[1][3] >>]
             \o SplitDetections(a, frame, Tail(detections))

\* The detections the loop over candidates runs through
RemainingDetections(a, frame, detections) ==
    LET iou == Max(0, Min(95, a.door_nms_iou))
        kept == nms_detections(detections, iou)
    IN  SortByConf(IF a.door_split_wide_boxes
                   THEN nms_detections(SplitDetections(a, frame, kept), iou)
                   ELSE kept)

\* The gate fitted for the detection det
GateOf(a, frame, det) ==
    fit_gate_line_from_box(frame, det[2][1], det[2][2], det[2][3], det[2][4],
                           a.door_line_offset)

\* The checks without the one of the threshold edge.
CandidateReasonNoEdgeCheck(a, frame, det, negative_boxes, n_rooms) ==
    LET seg == clamp_segment(det[2][1], det[2][3], frame.width)
        cand_h == Max(1, det[2][4] - det[2][2])
    IN  IF n_rooms >= Max(1, a.max_doors) THEN "max_doors_reached"
        ELSE IF seg[2] - seg[1] < a.door_min_width THEN "too_narrow"
        ELSE IF cand_h * 100 > Max(0, Min(100, a.door_max_height_ratio)) * frame.height
        THEN "too_tall_for_door"
        ELSE IF \E n \in DOMAIN negative_boxes :
                   IouAtLeast(box_iou_xyxy(det[2], negative_boxes[n]),
                              Max(0, Min(100, a.door_negative_iou)))
        THEN "overlaps_negative_prompt"
        ELSE IF GateOf(a, frame, det)[5] = "edge" THEN "accepted_edge"
        ELSE "accepted_fallback"

\* The checks with the height tested before the width.
CandidateReasonHeightFirst(a, frame, det, negative_boxes, n_rooms) ==
    LET seg == clamp_segment(det[2][1], det[2][3], frame.width)
        cand_h == Max(1, det[2][4] - det[2][2])
    IN  IF n_rooms >= Max(1, a.max_doors) THEN "max_doors_reached"
        ELSE IF cand_h * 100 > Max(0, Min(100, a.door_max_height_ratio)) * frame.height
        THEN "too_tall_for_door"
        ELSE IF seg[2] - seg[1] < a.door_min_width THEN "too_narrow"
        ELSE IF \E n \in DOMAIN negative_boxes :
                   IouAtLeast(box_iou_xyxy(det[2], negative_boxes[n]),
                              Max(0, Min(100, a.door_negative_iou)))
        THEN "overlaps_negative_prompt"
        ELSE IF a.door_require_edge_threshold /\ GateOf(a, frame, det)[5] # "edge"
        THEN "missing_threshold_edge"
        ELSE IF GateOf(a, frame, det)[5] = "edge" THEN "accepted_edge"
        ELSE "accepted_fallback"

\* The reason of the DoorCandidate of det when len(rooms) is n_rooms
CandidateReason(a, frame, det, negative_boxes, n_rooms) ==
    LET seg == clamp_segment(det[2][1], det[2][3], frame.width)
        cand_h == Max(1, det[2][4] - det[2][2])
        max_height_ratio == Max(0, Min(100, a.door_max_height_ratio))
        neg_iou == Max(0, Min(100, a.door_negative_iou))
    IN  IF n_rooms >= Max(1, a.max_doors) THEN "max_doors_reached"
        ELSE IF seg[2] - seg[1] < a.door_min_width THEN "too_narrow"
        ELSE IF cand_h * 100 > max_height_ratio * frame.height THEN "too_tall_for_door"
        ELSE IF \E n \in DOMAIN negative_boxes :
                   IouAtLeast(box_iou_xyxy(det[2], negative_boxes[n]), neg_iou)
        THEN "overlaps_negative_prompt"
        ELSE IF a.door_require_edge_threshold /\ GateOf(a, frame, det)[5] # "edge"
        THEN "missing_threshold_edge"
        ELSE IF GateOf(a, frame, det)[5] = "edge" THEN "accepted_edge"
        ELSE "accepted_fallback"

DoorCandidate(det, accepted, reason) ==
    [x1 |-> det[2][1], y1 |-> det[2][2], x2 |-> det[2][3], y2 |-> det[2][4],
     conf |-> det[1], prompt |-> det[3], accepted |-> accepted, reason |-> reason]

\* The loop over the detections: gates holds the gate of every room appended so far
RECURSIVE CandidateLoop(_, _, _, _, _, _)
CandidateLoop(a, frame, detections, negative_boxes, gates, candidates) ==
    IF detections = << >> THEN [gates |-> gates, candidates |-> candidates]
    ELSE LET det == detections[1]
             reason == CandidateReason(a, frame, det, negative_boxes, Len(gates))
             accepted == reason \in {"accepted_edge", "accepted_fallback"}
             gate == GateOf(a, frame, det)
         IN  CandidateLoop(a, frame, Tail(detections), negative_boxes,
                           IF accepted
                           THEN Append(gates, << gate[1], gate[2], gate[3], gate[4] >>)
                           ELSE gates,
                           Append(candidates, DoorCandidate(det, accepted, reason)))

\* detect_doors_from_frame from the detections of the door model on: the pair it returns
DetectionPass(a, frame, detections, negative_detections) ==
    LET negative_kept == nms_detections(negative_detections, Max(0, Min(95, a.door_nms_iou)))
        negative_boxes == [n \in DOMAIN negative_kept |-> negative_kept[n][2]]
        loop == CandidateLoop(a, frame, RemainingDetections(a, frame, detections),
                              negative_boxes, << >>, << >>)
    IN  IF detections = << >> THEN [rooms |-> << >>, candidates |-> << >>]
        ELSE [rooms |-> detect_doors_from_frame(a, loop.gates), candidates |-> loop.candidates]

\* Frames: one in which the edge analysis finds nothing, one with a threshold line in
\* two boxes and a divider in the middle of the widest.
Frames ==
    { [width |-> Video.width, height |-> Video.height, edges |-> EmptyMap,
       dividers |-> EmptyMap],
      [width |-> Video.width, height |-> Video.height,
       edges |-> [b \in {BoxLeft, BoxWideLeft} |->
                     IF b = BoxLeft THEN << 290, 270 >> ELSE << 296, 296 >>],
       dividers |-> [b \in {BoxDouble} |-> 200]] }

\* Detections of the negative prompts.
NegativeLists ==
    { << >>, << << 50, BoxWindow, "window" >> >>, << << 50, BoxMirror, "mirror" >> >> }

\* Command lines of the detection passes explored.
DetectArgs ==
    { [DefaultArgs EXCEPT !.auto_detect_doors = TRUE],
      [DefaultArgs EXCEPT !.auto_detect_doors = TRUE, !.max_doors = 1],
      [DefaultArgs EXCEPT !.auto_detect_doors = TRUE, !.door_require_edge_threshold = TRUE],
      [DefaultArgs EXCEPT !.auto_detect_doors = TRUE, !.door_max_height_ratio = 70],
      [DefaultArgs EXCEPT !.auto_detect_doors = TRUE, !.door_split_wide_boxes = TRUE,
                          !.direction = "up"],
      [DefaultArgs EXCEPT !.auto_detect_doors = TRUE, !.max_doors = 2,
                          !.door_min_width = 200, !.door_max_height_ratio = 70,
                          !.door_require_edge_threshold = TRUE],
      [DefaultArgs EXCEPT !.auto_detect_doors = TRUE, !.max_doors = 1,
                          !.door_require_edge_threshold = TRUE],
      [DefaultArgs EXCEPT !.auto_detect_doors = TRUE, !.door_negative_iou = 150] }

(***************************************************************************)
(* room_config.py                                                          *)
(***************************************************************************)
\* room_items = payload.get("rooms", payload) if isinstance(payload, dict) else payload
RoomItems(payload) ==
    IF payload.kind = "dict" /\ "rooms" \in DOMAIN payload.obj THEN payload.obj.rooms
    ELSE payload

\* An exception of load_rooms: the check that failed, with the room index or the room id
\* its message gives.
Raised(check, room_index, room_id) ==
    Some([check |-> check, room_index |-> room_index, room_id |-> room_id])

\* The checks of one room object without the one of its direction.
ItemErrorNoDirection(a, item, idx) ==
    IF item.kind # "dict" THEN Raised("must_be_an_object", Some(idx), NoneVal)
    ELSE IF /\ ~({"gate_x1", "gate_y1", "gate_x2", "gate_y2"} \subseteq DOMAIN item.obj)
            /\ "line" \notin DOMAIN item.obj
    THEN Raised("gate_points_or_line", Some(idx), NoneVal)
    ELSE NoneVal

\* What the body of the loop over room_items raises for the item at idx, if anything.
ItemError(a, item, idx) ==
    IF item.kind # "dict" THEN Raised("must_be_an_object", Some(idx), NoneVal)
    ELSE IF /\ ~({"gate_x1", "gate_y1", "gate_x2", "gate_y2"} \subseteq DOMAIN item.obj)
            /\ "line" \notin DOMAIN item.obj
    THEN Raised("gate_points_or_line", Some(idx), NoneVal)
    ELSE IF GetOr(item.obj, "direction", a.direction) \notin {"down", "up"}
    THEN Raised("direction", NoneVal,
                Some(GetOr(item.obj, "room_id", GetOr(item.obj, "id", RoomName(idx)))))
    ELSE NoneVal

\* The first exception of the loop over room_items from index idx on.
RECURSIVE FirstItemError(_, _, _)
FirstItemError(a, room_items, idx) ==
    IF idx > Len(room_items) THEN NoneVal
    ELSE IF ~IsNone(ItemError(a, room_items[idx], idx)) THEN ItemError(a, room_items[idx], idx)
    ELSE FirstItemError(a, room_items, idx + 1)

\* What load_rooms raises for the arguments a, if anything; door_model tells whether the
\* door model was initialized.
load_rooms_error(a, door_model) ==
    IF ~IsNone(a.rooms_config)
    THEN LET room_items == RoomItems(ConfigFiles[Get(a.rooms_config)])
         IN  IF room_items.kind # "list" \/ room_items.items = << >>
             THEN Raised("non_empty_list", NoneVal, NoneVal)
             ELSE FirstItemError(a, room_items.items, 1)
    ELSE IF a.auto_detect_doors
    THEN IF ~door_model THEN Raised("door_model", NoneVal, NoneVal) ELSE NoneVal
    ELSE IF IsNone(a.line) THEN Raised("line", NoneVal, NoneVal)
    ELSE IF IsNone(a.line_x1) # IsNone(a.line_x2) THEN Raised("line_x1_line_x2", NoneVal, NoneVal)
    ELSE NoneVal

RoomFromItem(a, item, idx, width) ==
    LET has_gate_points == {"gate_x1", "gate_y1", "gate_x2", "gate_y2"} \subseteq DOMAIN item
        seg == clamp_segment(GetOr(item, "x1", 0), GetOr(item, "x2", width), width)
    IN  RoomConfig(GetOr(item, "room_id", GetOr(item, "id", RoomName(idx))),
                   IF has_gate_points THEN item.gate_x1 ELSE seg[1],
                   IF has_gate_points THEN item.gate_y1 ELSE item.line,
                   IF has_gate_points THEN item.gate_x2 ELSE seg[2],
                   IF has_gate_points THEN item.gate_y2 ELSE item.line,
                   GetOr(item, "direction", a.direction),
                   GetOr(item, "line_margin", a.line_margin),
                   GetOr(item, "initial_occupancy", 0),
                   Max(1, GetOr(item, "line_thickness", a.line_thickness)))

\* Auto detection taking precedence over the rooms config.
load_rooms_autofirst(a, width, gates) ==
    IF a.auto_detect_doors
    THEN detect_doors_from_frame(a, gates)
    ELSE IF ~IsNone(a.rooms_config)
    THEN [idx \in DOMAIN RoomItems(ConfigFiles[Get(a.rooms_config)]).items |->
             RoomFromItem(a, RoomItems(ConfigFiles[Get(a.rooms_config)]).items[idx].obj,
                          idx, width)]
    ELSE << RoomConfig("room_1", 0, Get(a.line), width, Get(a.line), a.direction,
                       a.line_margin, a.initial_occupancy, Max(1, a.line_thickness)) >>

\* The rooms load_rooms returns; gates is what door detection accepts in the first frame.
load_rooms(a, width, gates) ==
    IF ~IsNone(a.rooms_config)
    THEN LET room_items == RoomItems(ConfigFiles[Get(a.rooms_config)]).items
         IN  [idx \in DOMAIN room_items |-> RoomFromItem(a, room_items[idx].obj, idx, width)]
    ELSE IF a.auto_detect_doors
    THEN detect_doors_from_frame(a, gates)
    ELSE LET seg == IF IsNone(a.line_x1)
                    THEN << 0, width >>
                    ELSE clamp_segment(Get(a.line_x1), Get(a.line_x2), width)
         IN  << RoomConfig("room_1", seg[1], Get(a.line), seg[2], Get(a.line), a.direction,
                           a.line_margin, a.initial_occupancy, Max(1, a.line_thickness)) >>

(***************************************************************************)
(* pipeline.py: run_people_counter                                         *)
(***************************************************************************)
room_signature(rs) ==
    [k \in DOMAIN rs |->
        << rs[k].room_id, rs[k].gate_x1, rs[k].gate_y1, rs[k].gate_x2, rs[k].gate_y2,
           rs[k].direction, rs[k].line_margin >>]

RoomIdsOf(rs) == { rs[k].room_id : k \in DOMAIN rs }

\* door_model is not None
DoorModelLoaded(a) == a.auto_detect_doors /\ IsNone(a.rooms_config)

\* int(round(n / d)) for n >= 0, d > 0: Python rounds halves to the even neighbour
RoundHalfEven(n, d) ==
    LET q == n \div d
        r == n % d
    IN  IF 2 * r > d THEN q + 1
        ELSE IF 2 * r < d THEN q
        ELSE IF q % 2 = 0 THEN q ELSE q + 1

refresh_n(a, f) ==
    IF ~IsNone(a.door_refresh_seconds)
    THEN Max(1, RoundHalfEven(Max(5, Get(a.door_refresh_seconds)) * f, 100))
    ELSE Max(1, a.door_refresh_frames)

\* The cadence test without the lock.
should_refresh_unlocked(a, f, locked, idx) ==
    /\ a.auto_detect_doors
    /\ IsNone(a.rooms_config)
    /\ DoorModelLoaded(a)
    /\ idx % refresh_n(a, f) = 0

should_refresh(a, f, locked, idx) ==
    /\ a.auto_detect_doors
    /\ IsNone(a.rooms_config)
    /\ DoorModelLoaded(a)
    /\ ~locked
    /\ idx % refresh_n(a, f) = 0

\* A refresh that takes the rooms of the latest pass whenever it found any.
RoomsAfterPassNewest(new_rooms, active) == IF new_rooms # << >> THEN new_rooms ELSE active

\* A refresh that takes the rooms of the latest pass even when it found none.
RoomsAfterPassEmptied(new_rooms, active) ==
    IF Len(new_rooms) >= Len(active) \/ new_rooms = << >> THEN new_rooms ELSE active

\* The value of rooms after a pass that returned new_rooms: chosen_rooms when new_rooms
\* is not empty, and rooms as it was otherwise.
RoomsAfterPass(new_rooms, active) ==
    IF new_rooms # << >>
    THEN IF Len(new_rooms) >= Len(active) THEN new_rooms ELSE active
    ELSE active

\* A refresh that starts every counter afresh.
EnsureStatsReset(stats, chosen_rooms) ==
    [rid \in RoomIdsOf(chosen_rooms) |-> RoomStats]

\* for room in chosen_rooms: room_stats.setdefault(room.room_id, RoomStats())
EnsureStats(stats, chosen_rooms) ==
    [rid \in (DOMAIN stats) \cup RoomIdsOf(chosen_rooms) |->
        IF rid \in DOMAIN stats THEN stats[rid] ELSE RoomStats]

\* A refresh that keeps the track memory whatever the signature.
ClearIfChangedNever(states, new_signature, prev_signature) == states

\* if new_signature != prev_room_signature: track_states.clear()
ClearIfChanged(states, new_signature, prev_signature) ==
    IF new_signature # prev_signature THEN EmptyMap ELSE states

\* state.last_side_by_room.get(room.room_id)
StoredSide(states, tid, rid) ==
    IF tid \in DOMAIN states /\ rid \in DOMAIN states[tid]
    THEN Some(states[tid][rid])
    ELSE NoneVal

\* The crossing branch without its assignment to the stored side.
StoreSideForgetsCrossing(state, rid, prev_side, curr_side) ==
    IF IsNone(prev_side)
    THEN IF curr_side # 0 THEN Put(state, rid, curr_side) ELSE state
    ELSE state

\* Memory overwritten by every sample, dead zone included.
StoreSideAlways(state, rid, prev_side, curr_side) == Put(state, rid, curr_side)

\* The assignments to state.last_side_by_room in the three branches of the room loop.
StoreSide(state, rid, prev_side, curr_side) ==
    IF IsNone(prev_side)
    THEN IF curr_side # 0 THEN Put(state, rid, curr_side) ELSE state
    ELSE IF curr_side # 0 /\ curr_side # Get(prev_side) THEN Put(state, rid, curr_side)
    ELSE IF curr_side # 0 THEN Put(state, rid, curr_side)
    ELSE state

\* A first observation compared against side -1 as if it were stored.
CountCrossingNoBaseline(stats, room, prev_side, curr_side) ==
    LET p == IF IsNone(prev_side) THEN -1 ELSE Get(prev_side)
        direction == crossing_direction(p, curr_side)
    IN  IF curr_side # 0 /\ curr_side # p
        THEN IF direction = room.direction
             THEN [stats EXCEPT ![room.room_id].entered = @ + 1]
             ELSE [stats EXCEPT ![room.room_id].left = @ + 1]
        ELSE stats

\* The exit test as a second if instead of an elif: an entry is counted as an exit too.
CountCrossingIfIf(stats, room, prev_side, curr_side) ==
    IF ~IsNone(prev_side) /\ curr_side # 0 /\ curr_side # Get(prev_side)
    THEN LET direction == crossing_direction(Get(prev_side), curr_side)
         IN  IF direction = room.direction
             THEN [stats EXCEPT ![room.room_id].entered = @ + 1,
                                ![room.room_id].left = @ + 1]
             ELSE [stats EXCEPT ![room.room_id].left = @ + 1]
    ELSE stats

\* Every stable sample on the entry side counted as an entry.
CountCrossingEverySample(stats, room, prev_side, curr_side) ==
    IF ~IsNone(prev_side) /\ curr_side # 0
    THEN IF crossing_direction(-curr_side, curr_side) = room.direction
         THEN [stats EXCEPT ![room.room_id].entered = @ + 1]
         ELSE [stats EXCEPT ![room.room_id].left = @ + 1]
    ELSE stats

\* The increments of room_stats in the room loop.
CountCrossing(stats, room, prev_side, curr_side) ==
    IF ~IsNone(prev_side) /\ curr_side # 0 /\ curr_side # Get(prev_side)
    THEN LET direction == crossing_direction(Get(prev_side), curr_side)
         IN  IF direction = room.direction
             THEN [stats EXCEPT ![room.room_id].entered = @ + 1]
             ELSE IF direction # "None"
             THEN [stats EXCEPT ![room.room_id].left = @ + 1]
             ELSE stats
    ELSE stats

\* Occupancy shown without the clamp at zero.
OccupancyUnclamped(room, stats) == room.initial_occupancy + stats.entered - stats.left

\* occupancy = max(0, room.initial_occupancy + stats.entered - stats.left)
Occupancy(room, stats) == Max(0, room.initial_occupancy + stats.entered - stats.left)

RoomLines(rs, stats) ==
    [k \in DOMAIN rs |->
        [room_id |-> rs[k].room_id,
         occupancy |-> Occupancy(rs[k], stats[rs[k].room_id]),
         entered |-> stats[rs[k].room_id].entered,
         left |-> stats[rs[k].room_id].left]]

\* run_detector not started
DetectorIdle ==
    /\ should_stop = FALSE
    /\ previous_person_count = 0
    /\ detection = NoneVal
    /\ reads = 0
    /\ processed = << >>
    /\ risk_calls = << >>
    /\ console = << >>

(***************************************************************************)
(* people_counter.py: the single-file program the package was split from,  *)
(* run beside the package on the same arguments, video and detections.     *)
(***************************************************************************)

\* side_of_gate of people_counter.py with the margin left out.
legacy_side_of_gate_no_margin(x, y, room, margin) ==
    side_of_gate(x, y, room.gate_x1, room.gate_y1, room.gate_x2, room.gate_y2, 0)

\* side_of_gate(x, y, room, margin) of people_counter.py
legacy_side_of_gate(x, y, room, margin) ==
    LET x1 == room.gate_x1
        y1 == room.gate_y1
        x2 == room.gate_x2
        y2 == room.gate_y2
        min_x == Min(x1, x2)
        max_x == Max(x1, x2)
        dx == x2 - x1
        \* y_on_gate = y1 + t * (y2 - y1) with t = (x - x1) / dx
        num == (x - x1) * (y2 - y1)
    IN  IF x < (min_x - margin) \/ x > (max_x + margin) THEN 0
        ELSE IF dx = 0
        THEN IF x < x1 - margin THEN -1
             ELSE IF x > x1 + margin THEN 1
             ELSE 0
        ELSE IF LessThanRatio(y - y1 + margin, num, dx) THEN -1
        ELSE IF MoreThanRatio(y - y1 - margin, num, dx) THEN 1
        ELSE 0

\* [(room.room_id, ..., room.line_margin) for room in rooms], written out in main()
legacy_signature(rs) ==
    [k \in DOMAIN rs |->
        << rs[k].room_id, rs[k].gate_x1, rs[k].gate_y1, rs[k].gate_x2, rs[k].gate_y2,
           rs[k].direction, rs[k].line_margin >>]

\* main() up to its loop
LegacyInit(a, gates) ==
    LET loaded == load_rooms(a, Video.width, gates)
    IN  [rooms |-> loaded,
         doors_locked |-> (/\ a.auto_detect_doors
                           /\ IsNone(a.rooms_config)
                           /\ a.lock_doors_on_detect
                           /\ loaded # << >>),
         track_states |-> EmptyMap,
         room_stats |-> [rid \in { loaded[k].room_id : k \in DOMAIN loaded } |-> RoomStats],
         prev_room_signature |-> legacy_signature(loaded)]

\* The refresh block at the head of the loop body of main().
LegacyRefresh(l, a, f, idx, gates) ==
    IF /\ a.auto_detect_doors
       /\ IsNone(a.rooms_config)
       /\ DoorModelLoaded(a)
       /\ ~l.doors_locked
    THEN LET every == IF ~IsNone(a.door_refresh_seconds)
                      THEN Max(1, RoundHalfEven(Max(5, Get(a.door_refresh_seconds)) * f, 100))
                      ELSE Max(1, a.door_refresh_frames)
             new_rooms == detect_doors_from_frame(a, gates)
             chosen_rooms == IF Len(new_rooms) >= Len(l.rooms) THEN new_rooms ELSE l.rooms
             new_signature == legacy_signature(chosen_rooms)
             chosen_ids == { chosen_rooms[k].room_id : k \in DOMAIN chosen_rooms }
         IN  IF idx % every = 0 /\ new_rooms # << >>
             THEN [rooms |-> chosen_rooms,
                   doors_locked |-> IF a.lock_doors_on_detect THEN TRUE ELSE l.doors_locked,
                   track_states |-> IF new_signature # l.prev_room_signature
                                    THEN EmptyMap ELSE l.track_states,
                   room_stats |-> [rid \in (DOMAIN l.room_stats) \cup chosen_ids |->
                                      IF rid \in DOMAIN l.room_stats
                                      THEN l.room_stats[rid] ELSE RoomStats],
                   prev_room_signature |-> IF new_signature # l.prev_room_signature
                                           THEN new_signature ELSE l.prev_room_signature]
             ELSE l
    ELSE l

\* The body of "for room in rooms" of main() for one room.
LegacyRoom(l, tid, foot_x, foot_y, room) ==
    LET curr_side == legacy_side_of_gate(foot_x, foot_y, room, room.line_margin)
        state == l.track_states[tid]
        prev_side == IF room.room_id \in DOMAIN state
                     THEN Some(state[room.room_id]) ELSE NoneVal
        stored == [l EXCEPT !.track_states[tid] = Put(state, room.room_id, curr_side)]
    IN  IF IsNone(prev_side)
        THEN IF curr_side # 0 THEN stored ELSE l
        ELSE IF curr_side # 0 /\ curr_side # Get(prev_side)
        THEN LET direction == crossing_direction(Get(prev_side), curr_side)
             IN  IF direction = room.direction
                 THEN [stored EXCEPT !.room_stats[room.room_id].entered = @ + 1]
                 ELSE IF direction # "None"
                 THEN [stored EXCEPT !.room_stats[room.room_id].left = @ + 1]
                 ELSE stored
        ELSE IF curr_side # 0 THEN stored
        ELSE l

RECURSIVE LegacyRooms(_, _, _, _, _)
\* for room in rooms, from the k-th room on
LegacyRooms(l, tid, foot_x, foot_y, k) ==
    IF k > Len(l.rooms) THEN l
    ELSE LegacyRooms(LegacyRoom(l, tid, foot_x, foot_y, l.rooms[k]), tid, foot_x, foot_y, k + 1)

\* The body of "for tid, (x1, y1, x2, y2) in zip(ids, xyxy)" of main() for one sample.
LegacySample(l, box) ==
    LET tid == box.tid
        foot_x == (box.xyxy[1] + box.xyxy[3]) \div 2
        foot_y == box.xyxy[4]
        seen == IF tid \in DOMAIN l.track_states THEN l
                ELSE [l EXCEPT !.track_states = Put(l.track_states, tid, TrackState)]
    IN  LegacyRooms(seen, tid, foot_x, foot_y, 1)


\* run_uploader not started
UploaderIdle ==
    /\ env = NoneVal
    /\ batch = << >>
    /\ total_sent_frames = 0
    /\ post_count = 0
    /\ posting = NoneVal
    /\ escaped = NoneVal
    /\ appended = << >>
    /\ posts = << >>
    /\ loop_exit = NoneVal
    /\ finalized = NoneVal

InitWith(run, gates, recording) ==
    /\ DetectorIdle
    /\ UploaderIdle
    /\ args = run.args
    /\ fps = run.fps
    /\ first_frame = TRUE
    /\ door_oracle = IF DoorModelLoaded(run.args) THEN Some(gates) ELSE NoneVal
    /\ rooms = load_rooms(run.args, Video.width, gates)
    /\ doors_locked = (/\ run.args.auto_detect_doors
                       /\ IsNone(run.args.rooms_config)
                       /\ run.args.lock_doors_on_detect
                       /\ load_rooms(run.args, Video.width, gates) # << >>)
    /\ track_states = EmptyMap
    /\ room_stats = [rid \in RoomIdsOf(load_rooms(run.args, Video.width, gates)) |-> RoomStats]
    /\ prev_room_signature = room_signature(load_rooms(run.args, Video.width, gates))
    /\ frame_index = 0
    /\ frames_read = 1
    /\ pc = "read"
    /\ boxes = << >>
    /\ i = 0
    /\ j = 0
    /\ foot = NoneVal
    /\ step = NoneVal
    /\ first_sample = FALSE
    /\ invalidated = FALSE
    /\ overlay = NoneVal
    /\ printed = NoneVal
    /\ trace = IF recording THEN Some(EmptyMap) ELSE NoneVal
    /\ crossings = IF recording THEN Some(EmptyMap) ELSE NoneVal
    /\ legacy = LegacyInit(run.args, gates)
    /\ passes_run = IF DoorModelLoaded(run.args) THEN 1 ELSE 0
    /\ last_pass = IF DoorModelLoaded(run.args)
                   THEN Some(Len(load_rooms(run.args, Video.width, gates)))
                   ELSE NoneVal
    /\ call = NoneVal
    /\ result = NoneVal

Init == \E run \in Runs, gates \in DoorPasses : InitWith(run, gates, FALSE)

\* Runs with the classified sides recorded until track memory is first cleared: those
\* that refresh the doors on every other frame at most, --door-refresh-frames not given.
InitTrace ==
    \E run \in Runs, gates \in DoorPasses :
        /\ DoorModelLoaded(run.args) /\ ~run.args.lock_doors_on_detect
               => refresh_n(run.args, run.fps) > 1
        /\ run.args.door_refresh_frames = DefaultArgs.door_refresh_frames
        /\ InitWith(run, gates, TRUE)

\* ok, frame = first_frame or cap.read(), a frame delivered
ReadFrame ==
    /\ pc = "read"
    /\ \/ /\ first_frame
          /\ first_frame' = FALSE
          /\ UNCHANGED << frames_read, door_oracle >>
       \/ /\ ~first_frame
          /\ frames_read < MaxFrames
          /\ frames_read' = frames_read + 1
          /\ door_oracle' = NoneVal
          /\ UNCHANGED first_frame
    /\ pc' = "refresh"
    /\ UNCHANGED << args, fps, rooms, doors_locked, track_states, room_stats,
                    prev_room_signature, frame_index, boxes, i, j, foot, step,
                    first_sample, invalidated, overlay, printed, trace, crossings, legacy,
                    passes_run, last_pass, call, result, detector_vars, uploader_vars >>

\* cap.read() returns not ok: break
EndOfVideo ==
    /\ pc = "read"
    /\ ~first_frame
    /\ pc' = "summary"
    /\ UNCHANGED << args, fps, first_frame, door_oracle, rooms, doors_locked, track_states,
                    room_stats, prev_room_signature, frame_index, frames_read, boxes, i, j,
                    foot, step, first_sample, invalidated, overlay, printed, trace, crossings, legacy,
                    passes_run, last_pass, call, result, detector_vars, uploader_vars >>

\* The door refresh of a frame on which should_refresh holds.
RefreshDoors ==
    /\ pc = "refresh"
    /\ should_refresh(args, fps, doors_locked, frame_index)
    /\ \E gates \in DoorPasses :
         /\ IF IsNone(door_oracle) THEN TRUE ELSE gates = Get(door_oracle)
         /\ door_oracle' = Some(gates)
         /\ passes_run' = passes_run + 1
         /\ last_pass' = Some(Len(detect_doors_from_frame(args, gates)))
         /\ LET new_rooms == detect_doors_from_frame(args, gates)
                chosen_rooms == RoomsAfterPass(new_rooms, rooms)
                new_signature == room_signature(chosen_rooms)
            IN  IF new_rooms # << >>
                THEN /\ room_stats' = EnsureStats(room_stats, chosen_rooms)
                     /\ track_states' =
                            ClearIfChanged(track_states, new_signature, prev_room_signature)
                     /\ prev_room_signature' = new_signature
                     /\ invalidated' = (new_signature # prev_room_signature)
                     /\ trace' = IF new_signature # prev_room_signature
                                 THEN NoneVal ELSE trace
                     /\ crossings' = IF new_signature # prev_room_signature /\ ~IsNone(crossings)
                                     THEN Some(EmptyMap) ELSE crossings
                     /\ rooms' = chosen_rooms
                     /\ doors_locked' = IF args.lock_doors_on_detect THEN TRUE
                                        ELSE doors_locked
                ELSE /\ rooms' = chosen_rooms
                     /\ UNCHANGED << room_stats, track_states, prev_room_signature,
                                     invalidated, trace, crossings, doors_locked >>
         /\ legacy' = LegacyRefresh(legacy, args, fps, frame_index, gates)
    /\ pc' = "track"
    /\ UNCHANGED << args, fps, first_frame, frame_index, frames_read, boxes, i, j, foot,
                    step, first_sample, overlay, printed,
                    call, result, detector_vars, uploader_vars >>

\* A frame on which no refresh is due.
SkipRefresh ==
    /\ pc = "refresh"
    /\ ~should_refresh(args, fps, doors_locked, frame_index)
    /\ \E gates \in DoorPasses :
         /\ IF IsNone(door_oracle) THEN TRUE ELSE gates = Get(door_oracle)
         /\ legacy' = LegacyRefresh(legacy, args, fps, frame_index, gates)
    /\ pc' = "track"
    /\ UNCHANGED << args, fps, first_frame, door_oracle, rooms, doors_locked, track_states,
                    room_stats, prev_room_signature, frame_index, frames_read, boxes, i, j,
                    foot, step, first_sample, invalidated, overlay, printed, trace, crossings,
                    passes_run, last_pass, call, result, detector_vars, uploader_vars >>

\* results = model.track(...): the ids and boxes of this frame
TrackPeople ==
    /\ pc = "track"
    /\ \E people \in PeopleLists :
         /\ boxes' = people
         /\ i' = 1
         /\ pc' = IF people = << >> THEN "draw" ELSE "sample"
    /\ UNCHANGED << args, fps, first_frame, door_oracle, rooms, doors_locked, track_states,
                    room_stats, prev_room_signature, frame_index, frames_read, j, foot,
                    step, first_sample, invalidated, overlay, printed, trace, crossings, legacy,
                    passes_run, last_pass, call, result, detector_vars, uploader_vars >>

\* Head of the loop over (tid, box): foot point and track_states.setdefault
BeginSample ==
    /\ pc = "sample"
    /\ LET tid == boxes[i].tid
           b == boxes[i].xyxy
       IN  /\ foot' = << (b[1] + b[3]) \div 2, b[4] >>
           /\ first_sample' = (tid \notin DOMAIN track_states)
           /\ track_states' = IF tid \in DOMAIN track_states THEN track_states
                              ELSE Put(track_states, tid, TrackState)
    /\ legacy' = LegacySample(legacy, boxes[i])
    /\ IF rooms = << >>
       THEN /\ i' = i + 1
            /\ pc' = IF i + 1 > Len(boxes) THEN "draw" ELSE "sample"
            /\ UNCHANGED j
       ELSE /\ j' = 1
            /\ pc' = "room"
            /\ UNCHANGED i
    /\ UNCHANGED << args, fps, first_frame, door_oracle, rooms, doors_locked, room_stats,
                    prev_room_signature, frame_index, frames_read, boxes, step,
                    invalidated, overlay, printed, trace, crossings,
                    passes_run, last_pass, call, result, detector_vars, uploader_vars >>

\* One iteration of the loop over rooms for the current sample.
RoomStep ==
    /\ pc = "room"
    /\ LET tid == boxes[i].tid
           room == rooms[j]
           curr_side == side_of_gate(foot[1], foot[2], room.gate_x1, room.gate_y1,
                                     room.gate_x2, room.gate_y2, room.line_margin)
           prev_side == StoredSide(track_states, tid, room.room_id)
       IN  /\ room_stats' = CountCrossing(room_stats, room, prev_side, curr_side)
           /\ track_states' =
                  [track_states EXCEPT
                      ![tid] = StoreSide(track_states[tid], room.room_id, prev_side, curr_side)]
           /\ step' = Some([tid |-> tid, room |-> room, foot |-> foot, prev_side |-> prev_side,
                            curr_side |-> curr_side,
                            direction |->
                                IF ~IsNone(prev_side) /\ curr_side # 0
                                   /\ curr_side # Get(prev_side)
                                THEN crossing_direction(Get(prev_side), curr_side)
                                ELSE "None"])
           /\ trace' = IF IsNone(trace) THEN trace
                       ELSE Some(Put(Get(trace), << tid, room.room_id >>,
                                     Append(GetOr(Get(trace), << tid, room.room_id >>, << >>),
                                            curr_side)))
           /\ crossings' =
                  IF IsNone(crossings) THEN crossings
                  ELSE LET before == GetOr(Get(crossings), << tid, room.room_id >>, << >>)
                           after == CountCrossing(room_stats, room, prev_side, curr_side)
                       IN  IF after[room.room_id].entered > room_stats[room.room_id].entered
                           THEN Some(Put(Get(crossings), << tid, room.room_id >>,
                                         Append(before, "entered")))
                           ELSE IF after[room.room_id].left > room_stats[room.room_id].left
                           THEN Some(Put(Get(crossings), << tid, room.room_id >>,
                                         Append(before, "left")))
                           ELSE crossings
    /\ IF j < Len(rooms)
       THEN /\ j' = j + 1
            /\ UNCHANGED << i, pc >>
       ELSE /\ i' = i + 1
            /\ pc' = IF i + 1 > Len(boxes) THEN "draw" ELSE "sample"
            /\ UNCHANGED j
    /\ UNCHANGED << args, fps, first_frame, door_oracle, rooms, doors_locked,
                    prev_room_signature, frame_index, frames_read, boxes, foot,
                    first_sample, invalidated, overlay, printed, legacy,
                    passes_run, last_pass, call, result, detector_vars, uploader_vars >>

\* Drawing of the frame; the locals of the frame die with it.
DrawCommon ==
    /\ pc = "draw"
    /\ overlay' = Some(RoomLines(rooms, room_stats))
    /\ boxes' = << >>
    /\ i' = 0
    /\ j' = 0
    /\ foot' = NoneVal
    /\ step' = NoneVal
    /\ first_sample' = FALSE
    /\ invalidated' = FALSE
    /\ door_oracle' = NoneVal
    /\ UNCHANGED << args, fps, first_frame, rooms, doors_locked, track_states, room_stats,
                    prev_room_signature, frames_read, printed, trace, crossings, legacy,
                    passes_run, last_pass, call, result, detector_vars, uploader_vars >>

\* End of the loop body: the frame is drawn and frame_index advances.
DrawFrame ==
    /\ DrawCommon
    /\ frame_index' = frame_index + 1
    /\ pc' = "read"

\* args.show and 'q' pressed: break
DrawAndQuit ==
    /\ DrawCommon
    /\ args.show
    /\ pc' = "summary"
    /\ UNCHANGED frame_index

\* print("Final room summary:") and the line of each room
Summary ==
    /\ pc = "summary"
    /\ printed' = Some(RoomLines(rooms, room_stats))
    /\ pc' = "done"
    /\ UNCHANGED << args, fps, first_frame, door_oracle, rooms, doors_locked, track_states,
                    room_stats, prev_room_signature, frame_index, frames_read, boxes, i, j,
                    foot, step, first_sample, invalidated, overlay, trace, crossings, legacy,
                    passes_run, last_pass, call, result, detector_vars, uploader_vars >>

Next ==
    \/ ReadFrame
    \/ EndOfVideo
    \/ RefreshDoors
    \/ SkipRefresh
    \/ TrackPeople
    \/ BeginSample
    \/ RoomStep
    \/ DrawFrame
    \/ DrawAndQuit
    \/ Summary

Spec == Init /\ [][Next]_vars

SpecTrace == InitTrace /\ [][Next]_vars

(***************************************************************************)
(* room_config.py: load_rooms called on its own, for every command line    *)
(* of LoadArgs, the exceptions included                                    *)
(***************************************************************************)
\* Command lines: each source of rooms given or not, --line-x1 and --line-x2 given or
\* not, either direction.
LoadArgs ==
    { [DefaultArgs EXCEPT !.rooms_config = c, !.auto_detect_doors = auto, !.line = l,
                          !.line_x1 = lx1, !.line_x2 = lx2, !.direction = dir] :
        c \in {NoneVal} \cup { Some(n) : n \in DOMAIN ConfigFiles },
        auto \in BOOLEAN, l \in {NoneVal, Some(300)}, lx1 \in {NoneVal, Some(100)},
        lx2 \in {NoneVal, Some(500)}, dir \in Directions }

\* The state of run_people_counter before load_rooms: nothing of the frame loop exists.
BeforeLoop ==
    /\ DetectorIdle
    /\ fps = 30
    /\ first_frame = TRUE
    /\ door_oracle = NoneVal
    /\ rooms = << >>
    /\ doors_locked = FALSE
    /\ track_states = EmptyMap
    /\ room_stats = EmptyMap
    /\ prev_room_signature = << >>
    /\ frame_index = 0
    /\ frames_read = 1
    /\ boxes = << >>
    /\ i = 0
    /\ j = 0
    /\ foot = NoneVal
    /\ step = NoneVal
    /\ first_sample = FALSE
    /\ invalidated = FALSE
    /\ overlay = NoneVal
    /\ printed = NoneVal
    /\ trace = NoneVal
    /\ crossings = NoneVal
    /\ legacy = NoneVal
    /\ passes_run = 0
    /\ last_pass = NoneVal

InitLoad ==
    \E a \in LoadArgs, gates \in DoorPasses :
        /\ args = a
        /\ pc = "load"
        /\ call = Some([fn |-> "load_rooms", gates |-> gates])
        /\ result = NoneVal
        /\ BeforeLoop
        /\ UploaderIdle

\* rooms, latest_door_candidates = load_rooms(...): it returns the rooms, or raises and
\* run_people_counter ends there.
LoadRooms ==
    /\ pc = "load"
    /\ LET raised == load_rooms_error(args, DoorModelLoaded(args))
       IN  IF IsNone(raised)
           THEN /\ rooms' = load_rooms(args, Video.width, Get(call).gates)
                /\ result' = Some([raised |-> NoneVal,
                                   rooms |-> load_rooms(args, Video.width, Get(call).gates)])
                /\ passes_run' = IF DoorModelLoaded(args) THEN 1 ELSE 0
                /\ pc' = "loaded"
           ELSE /\ result' = Some([raised |-> raised, rooms |-> << >>])
                /\ pc' = "failed"
                /\ UNCHANGED << rooms, passes_run >>
    /\ UNCHANGED << args, fps, first_frame, door_oracle, doors_locked, track_states,
                    room_stats, prev_room_signature, frame_index, frames_read, boxes, i, j,
                    foot, step, first_sample, invalidated, overlay, printed, trace, crossings, legacy,
                    last_pass, call, detector_vars, uploader_vars >>

SpecLoad == InitLoad /\ [][LoadRooms]_vars

(***************************************************************************)
(* door_detection.py: nms_detections called on its own, and once more on   *)
(* what it returned                                                        *)
(***************************************************************************)
InitNms ==
    \E ds \in DetectionLists(MaxDetections), t \in NmsThresholds :
        /\ args = DefaultArgs
        /\ pc = "nms"
        /\ call = Some([fn |-> "nms_detections", detections |-> ds, iou_threshold |-> t])
        /\ result = NoneVal
        /\ BeforeLoop
        /\ UploaderIdle

\* kept = nms_detections(detections, iou_threshold)
NmsFirst ==
    /\ pc = "nms"
    /\ result' = Some([kept |-> nms_detections(Get(call).detections, Get(call).iou_threshold),
                       again |-> NoneVal])
    /\ pc' = "nms_again"
    /\ UNCHANGED << args, fps, first_frame, door_oracle, rooms, doors_locked, track_states,
                    room_stats, prev_room_signature, frame_index, frames_read, boxes, i, j,
                    foot, step, first_sample, invalidated, overlay, printed, trace, crossings, legacy,
                    passes_run, last_pass, call, detector_vars, uploader_vars >>

\* again = nms_detections(kept, iou_threshold)
NmsAgain ==
    /\ pc = "nms_again"
    /\ result' = Some([Get(result) EXCEPT
                          !.again = Some(nms_detections(Get(result).kept,
                                                        Get(call).iou_threshold))])
    /\ pc' = "nms_done"
    /\ UNCHANGED << args, fps, first_frame, door_oracle, rooms, doors_locked, track_states,
                    room_stats, prev_room_signature, frame_index, frames_read, boxes, i, j,
                    foot, step, first_sample, invalidated, overlay, printed, trace, crossings, legacy,
                    passes_run, last_pass, call, detector_vars, uploader_vars >>

NextNms == NmsFirst \/ NmsAgain

SpecNms == InitNms /\ [][NextNms]_vars

(***************************************************************************)
(* door_detection.py: one detection pass on its own                        *)
(***************************************************************************)
InitDetect ==
    \E a \in DetectArgs, frame \in Frames, ds \in DetectionLists(MaxDetections),
       neg \in NegativeLists :
        /\ args = a
        /\ pc = "detect"
        /\ call = Some([fn |-> "detect_doors_from_frame", frame |-> frame,
                        detections |-> ds, negative_detections |-> neg])
        /\ result = NoneVal
        /\ BeforeLoop
        /\ UploaderIdle

\* rooms, candidates = detect_doors_from_frame(...)
DetectDoors ==
    /\ pc = "detect"
    /\ result' = Some(DetectionPass(args, Get(call).frame, Get(call).detections,
                                    Get(call).negative_detections))
    /\ passes_run' = passes_run + 1
    /\ pc' = "detected"
    /\ UNCHANGED << args, fps, first_frame, door_oracle, rooms, doors_locked, track_states,
                    room_stats, prev_room_signature, frame_index, frames_read, boxes, i, j,
                    foot, step, first_sample, invalidated, overlay, printed, trace, crossings, legacy,
                    last_pass, call, detector_vars, uploader_vars >>

SpecDetect == InitDetect /\ [][DetectDoors]_vars

(***************************************************************************)
(* detector.py: run_detector                                               *)
(*                                                                         *)
(* The camera, the person model and the risk endpoint are inputs: a read   *)
(* of the camera succeeds or not, the model counts some persons in a       *)
(* frame, and the endpoint answers a request in one of the ways of         *)
(* RiskReplies.  SIGINT and SIGTERM run handle_stop between any two steps. *)
(***************************************************************************)
\* Most calls of cap.read() in one run.
MaxReads == 4

\* len(results[0].boxes) for a frame
PersonCounts == {0, 1, 2}

\* What session.post and the response do in check_room_high_risk: the request times
\* out or the connection fails, the status is an error, the body is not JSON, the body
\* is JSON but not an object, the body is an object.
RiskReplies == {"timeout", "connection_error", "http_error", "not_json", "not_object", "object"}

\* The classes an exception is an instance of
ExceptionClasses ==
    [e \in {"Timeout", "ConnectionError", "HTTPError", "JSONDecodeError", "RuntimeError"} |->
        CASE e = "Timeout" -> {"Timeout", "RequestException"}
          [] e = "ConnectionError" -> {"ConnectionError", "RequestException"}
          [] e = "HTTPError" -> {"HTTPError", "RequestException"}
          [] e = "JSONDecodeError" -> {"JSONDecodeError", "ValueError"}
          [] e = "RuntimeError" -> {"RuntimeError"}]

\* Detector.process_frame with the entry on every increase of the count.
process_frame_on_increase(prev_count, person_count) ==
    [person_count |-> person_count, entry_event |-> person_count > prev_count]

\* Detector.process_frame: the DetectionResult for a frame with person_count persons
\* when _previous_person_count is prev_count
process_frame(prev_count, person_count) ==
    [person_count |-> person_count, entry_event |-> prev_count = 0 /\ person_count > 0]

\* check_room_high_risk: the exception it raises, or the payload it returns
check_room_high_risk(reply) ==
    IF reply = "timeout" THEN [raised |-> Some("Timeout"), payload |-> NoneVal]
    ELSE IF reply = "connection_error" THEN [raised |-> Some("ConnectionError"), payload |-> NoneVal]
    ELSE IF reply = "http_error" THEN [raised |-> Some("HTTPError"), payload |-> NoneVal]
    ELSE IF reply = "not_json" THEN [raised |-> Some("JSONDecodeError"), payload |-> NoneVal]
    ELSE IF reply = "not_object" THEN [raised |-> Some("RuntimeError"), payload |-> NoneVal]
    ELSE [raised |-> NoneVal, payload |-> Some("object")]

\* The except clause of run_detector with RuntimeError left out.
RiskCheckCaughtNoRuntime(exception) ==
    ExceptionClasses[exception] \cap {"RequestException", "ValueError"} # {}

\* except (requests.RequestException, ValueError, RuntimeError)
RiskCheckCaught(exception) ==
    ExceptionClasses[exception] \cap {"RequestException", "ValueError", "RuntimeError"} # {}

InitDetector ==
    /\ args = DefaultArgs
    /\ pc = "while"
    /\ call = Some([fn |-> "run_detector"])
    /\ result = NoneVal
    /\ BeforeLoop
    /\ UploaderIdle

\* handle_stop
DetectorHandleStop ==
    /\ pc \in {"while", "cap_read", "risk_check"}
    /\ ~should_stop
    /\ should_stop' = TRUE
    /\ console' = Append(console, "Signal received, stopping detector...")
    /\ UNCHANGED << args, fps, first_frame, door_oracle, rooms, doors_locked, track_states,
                    room_stats, prev_room_signature, frame_index, frames_read, pc, boxes, i,
                    j, foot, step, first_sample, invalidated, overlay, printed, trace, crossings, legacy,
                    passes_run, last_pass, call, result, previous_person_count, detection,
                    reads, processed, risk_calls, uploader_vars, uploader_vars >>

\* while not should_stop["value"], and the finally block when the loop has ended
DetectorWhile ==
    /\ pc = "while"
    /\ IF should_stop
       THEN /\ pc' = "stopped"
            /\ console' = Append(console, "Detector stopped")
            /\ result' = Some([raised |-> NoneVal])
       ELSE /\ pc' = "cap_read"
            /\ UNCHANGED << console, result >>
    /\ UNCHANGED << args, fps, first_frame, door_oracle, rooms, doors_locked, track_states,
                    room_stats, prev_room_signature, frame_index, frames_read, boxes, i, j,
                    foot, step, first_sample, invalidated, overlay, printed, trace, crossings, legacy,
                    passes_run, last_pass, call, should_stop, previous_person_count,
                    detection, reads, processed, risk_calls, uploader_vars, uploader_vars >>

\* ok, frame = cap.read(), and for a frame read detector.process_frame(frame) up to the
\* call of check_room_high_risk
DetectorRead ==
    /\ pc = "cap_read"
    /\ reads < MaxReads
    /\ reads' = reads + 1
    /\ \E ok \in BOOLEAN, person_count \in PersonCounts :
         IF ~ok
         THEN /\ person_count = 0
              /\ pc' = "while"
              /\ UNCHANGED << previous_person_count, detection, processed, console >>
         ELSE LET res == process_frame(previous_person_count, person_count)
              IN  /\ previous_person_count' = person_count
                  /\ detection' = Some(res)
                  /\ processed' = Append(processed, res)
                  /\ IF ~res.entry_event
                     THEN /\ pc' = "while"
                          /\ UNCHANGED console
                     ELSE /\ pc' = "risk_check"
                          /\ console' = Append(console, "entry_event detected")
    /\ UNCHANGED << args, fps, first_frame, door_oracle, rooms, doors_locked, track_states,
                    room_stats, prev_room_signature, frame_index, frames_read, boxes, i, j,
                    foot, step, first_sample, invalidated, overlay, printed, trace, crossings, legacy,
                    passes_run, last_pass, call, result, should_stop, risk_calls, uploader_vars, uploader_vars >>

\* risk_payload = check_room_high_risk(...) with its except clause, the print of the
\* result, and the finally block when the exception is not caught
DetectorRiskCheck ==
    /\ pc = "risk_check"
    /\ \E reply \in RiskReplies :
         LET answer == check_room_high_risk(reply)
         IN  /\ risk_calls' = Append(risk_calls, [frame |-> Len(processed), reply |-> reply])
             /\ IF IsNone(answer.raised)
                THEN /\ console' = Append(console, "room-risk result")
                     /\ pc' = "while"
                     /\ UNCHANGED result
                ELSE IF RiskCheckCaught(Get(answer.raised))
                THEN /\ console' = Append(console, "room-risk check failed")
                     /\ pc' = "while"
                     /\ UNCHANGED result
                ELSE /\ console' = Append(console, "Detector stopped")
                     /\ pc' = "stopped"
                     /\ result' = Some([raised |-> answer.raised])
    /\ UNCHANGED << args, fps, first_frame, door_oracle, rooms, doors_locked, track_states,
                    room_stats, prev_room_signature, frame_index, frames_read, boxes, i, j,
                    foot, step, first_sample, invalidated, overlay, printed, trace, crossings, legacy,
                    passes_run, last_pass, call, should_stop, previous_person_count,
                    detection, reads, processed, uploader_vars, uploader_vars >>

NextDetector == DetectorHandleStop \/ DetectorWhile \/ DetectorRead \/ DetectorRiskCheck

SpecDetector == InitDetector /\ [][NextDetector]_vars

(***************************************************************************)
(* uploader.py: run_uploader                                               *)
(*                                                                         *)
(* The camera, the clock and the ingest endpoint are inputs: a read gives  *)
(* a frame, no frame, or a frame past the end of the clip; the time since  *)
(* the last flush has reached FLUSH_SECONDS or not; the endpoint answers a *)
(* post in one of the ways of PostReplies.  A frame is named by the number *)
(* of the read that gave it.  Waits are in tenths of a second.             *)
(***************************************************************************)
RETRY_BACKOFF_SECONDS == 15

\* What post_batch does: session.post raises a requests.RequestException, or returns a
\* response whose body is a JSON object, is not JSON, or is JSON but not an object.
PostReplies == {"raise", "object", "not_json", "not_object"}

\* Environments of the runs explored: BATCH_SIZE >= 1 as run_uploader requires;
\* clip says MAX_DURATION_SECONDS is set.
Environments ==
    { [BATCH_SIZE |-> 2, POST_RETRIES |-> 2, is_file_source |-> TRUE, clip |-> TRUE],
      [BATCH_SIZE |-> 1, POST_RETRIES |-> 0, is_file_source |-> FALSE, clip |-> FALSE],
      [BATCH_SIZE |-> 3, POST_RETRIES |-> 1, is_file_source |-> TRUE, clip |-> FALSE],
      [BATCH_SIZE |-> 2, POST_RETRIES |-> -1, is_file_source |-> FALSE, clip |-> FALSE] }

\* The test of the last attempt, one attempt late.
LastAttemptLate(attempt, max_attempts) == attempt > max_attempts

\* if attempt >= max_attempts
LastAttempt(attempt, max_attempts) == attempt >= max_attempts

\* log_batch_response: the exception it raises for the body of the response
log_batch_response(reply) ==
    IF reply = "not_object" THEN Some("AttributeError") ELSE NoneVal

\* post_batch_with_retry(session, batch) entered from the loop or from the finally block
EnterPost(items, where) ==
    Some([batch |-> items, where |-> where, attempt |-> 1, replies |-> << >>,
          waits |-> << >>])

InitUploader ==
    \E e \in Environments :
        /\ args = DefaultArgs
        /\ pc = "while"
        /\ call = Some([fn |-> "run_uploader"])
        /\ result = NoneVal
        /\ BeforeLoop
        /\ env = Some(e)
        /\ batch = << >>
        /\ total_sent_frames = 0
        /\ post_count = 0
        /\ posting = NoneVal
        /\ escaped = NoneVal
        /\ appended = << >>
        /\ posts = << >>
        /\ loop_exit = NoneVal
        /\ finalized = NoneVal

\* handle_stop
UploaderHandleStop ==
    /\ pc \in {"while", "cap_read", "post", "posted", "finally", "finalize"}
    /\ ~should_stop
    /\ should_stop' = TRUE
    /\ UNCHANGED << args, fps, first_frame, door_oracle, rooms, doors_locked, track_states,
                    room_stats, prev_room_signature, frame_index, frames_read, pc, boxes, i,
                    j, foot, step, first_sample, invalidated, overlay, printed, trace, crossings, legacy,
                    passes_run, last_pass, call, result, previous_person_count, detection,
                    reads, processed, risk_calls, console, uploader_vars >>

\* while not should_stop["value"]
UploaderWhile ==
    /\ pc = "while"
    /\ IF should_stop
       THEN /\ pc' = "finally"
            /\ loop_exit' = Some([batch |-> batch, cause |-> "stop", stop |-> should_stop])
       ELSE /\ pc' = "cap_read"
            /\ UNCHANGED loop_exit
    /\ UNCHANGED << args, fps, first_frame, door_oracle, rooms, doors_locked, track_states,
                    room_stats, prev_room_signature, frame_index, frames_read, boxes, i, j,
                    foot, step, first_sample, invalidated, overlay, printed, trace, crossings, legacy,
                    passes_run, last_pass, call, result, detector_vars, env, batch,
                    total_sent_frames, post_count, posting, escaped, appended, posts,
                    finalized >>

\* One iteration of the loop from cap.read() to the call of post_batch_with_retry, or to
\* the end of the iteration when the batch is not flushed
UploaderRead ==
    /\ pc = "cap_read"
    /\ reads < MaxReads
    /\ reads' = reads + 1
    /\ \E got \in {"frame", "no_frame", "clip_end"}, flush_due \in BOOLEAN :
         CASE got = "no_frame" ->
                /\ ~flush_due
                /\ IF Get(env).is_file_source
                   THEN /\ pc' = "finally"
                        /\ loop_exit' = Some([batch |-> batch, cause |-> "end_of_file",
                                           stop |-> should_stop])
                   ELSE /\ pc' = "while"
                        /\ UNCHANGED loop_exit
                /\ UNCHANGED << batch, appended, post_count, posting >>
           [] got = "clip_end" ->
                /\ ~flush_due
                /\ Get(env).is_file_source /\ Get(env).clip
                /\ pc' = "finally"
                /\ loop_exit' = Some([batch |-> batch, cause |-> "clip_duration",
                                   stop |-> should_stop])
                /\ UNCHANGED << batch, appended, post_count, posting >>
           [] got = "frame" ->
                /\ batch' = Append(batch, reads')
                /\ appended' = Append(appended, reads')
                /\ IF Len(batch') >= Get(env).BATCH_SIZE \/ flush_due
                   THEN /\ post_count' = post_count + 1
                        /\ posting' = EnterPost(batch', "loop")
                        /\ pc' = "post"
                   ELSE /\ pc' = "while"
                        /\ UNCHANGED << post_count, posting >>
                /\ UNCHANGED loop_exit
    /\ UNCHANGED << args, fps, first_frame, door_oracle, rooms, doors_locked, track_states,
                    room_stats, prev_room_signature, frame_index, frames_read, boxes, i, j,
                    foot, step, first_sample, invalidated, overlay, printed, trace, crossings, legacy,
                    passes_run, last_pass, call, result, should_stop,
                    previous_person_count, detection, processed, risk_calls, console, env,
                    total_sent_frames, escaped, posts, finalized >>

\* post_batch_with_retry: one round of its loop, a call of post_batch and what follows
\* it, or its return without a call when the range of attempts is empty
UploaderPost ==
    /\ pc = "post"
    /\ LET p == Get(posting)
           max_attempts == Get(env).POST_RETRIES + 1
           returned(replies, response) ==
               /\ posts' = Append(posts, [batch |-> p.batch, where |-> p.where,
                                          replies |-> replies, waits |-> p.waits,
                                          response |-> response])
               /\ posting' = NoneVal
               /\ pc' = "posted"
       IN  IF p.attempt > max_attempts
           THEN returned(p.replies, NoneVal)
           ELSE \E reply \in PostReplies :
                    IF reply # "raise"
                    THEN returned(Append(p.replies, reply), Some(reply))
                    ELSE IF LastAttempt(p.attempt, max_attempts)
                    THEN returned(Append(p.replies, reply), NoneVal)
                    ELSE /\ posting' = Some([p EXCEPT
                                                !.attempt = p.attempt + 1,
                                                !.replies = Append(p.replies, reply),
                                                !.waits = Append(p.waits,
                                                             RETRY_BACKOFF_SECONDS * p.attempt)])
                         /\ UNCHANGED << posts, pc >>
    /\ UNCHANGED << args, fps, first_frame, door_oracle, rooms, doors_locked, track_states,
                    room_stats, prev_room_signature, frame_index, frames_read, boxes, i, j,
                    foot, step, first_sample, invalidated, overlay, printed, trace, crossings, legacy,
                    passes_run, last_pass, call, result, detector_vars, env, batch,
                    total_sent_frames, post_count, escaped, appended, loop_exit, finalized >>

\* What follows the return of post_batch_with_retry, in the loop up to the end of the
\* iteration and in the finally block up to the test of total_sent_frames
UploaderAfterPost ==
    /\ pc = "posted"
    /\ LET p == posts[Len(posts)]
           error == IF IsNone(p.response) THEN NoneVal
                    ELSE log_batch_response(Get(p.response))
       IN  IF ~IsNone(error)
           THEN /\ escaped' = error
                /\ IF p.where = "loop"
                   THEN /\ pc' = "finally"
                        /\ loop_exit' = Some([batch |-> batch, cause |-> "exception",
                                           stop |-> should_stop])
                   ELSE /\ pc' = "stopped"
                        /\ UNCHANGED loop_exit
                /\ UNCHANGED << batch, total_sent_frames >>
           ELSE /\ total_sent_frames' = IF IsNone(p.response) THEN total_sent_frames
                                        ELSE total_sent_frames + Len(batch)
                /\ IF p.where = "loop"
                   THEN /\ batch' = << >>
                        /\ pc' = "while"
                   ELSE /\ pc' = "finalize"
                        /\ UNCHANGED batch
                /\ UNCHANGED << escaped, loop_exit >>
    /\ UNCHANGED << args, fps, first_frame, door_oracle, rooms, doors_locked, track_states,
                    room_stats, prev_room_signature, frame_index, frames_read, boxes, i, j,
                    foot, step, first_sample, invalidated, overlay, printed, trace, crossings, legacy,
                    passes_run, last_pass, call, result, detector_vars, env, post_count,
                    posting, appended, posts, finalized >>

\* finally: cap.release() and the flush of what is left in batch
UploaderFinally ==
    /\ pc = "finally"
    /\ IF batch # << >>
       THEN /\ post_count' = post_count + 1
            /\ posting' = EnterPost(batch, "finally")
            /\ pc' = "post"
       ELSE /\ pc' = "finalize"
            /\ UNCHANGED << post_count, posting >>
    /\ UNCHANGED << args, fps, first_frame, door_oracle, rooms, doors_locked, track_states,
                    room_stats, prev_room_signature, frame_index, frames_read, boxes, i, j,
                    foot, step, first_sample, invalidated, overlay, printed, trace, crossings, legacy,
                    passes_run, last_pass, call, result, detector_vars, env, batch,
                    total_sent_frames, escaped, appended, posts, loop_exit, finalized >>

\* if total_sent_frames > 0: finalize_video_with_retry(...), and the end of run_uploader
UploaderFinalize ==
    /\ pc = "finalize"
    /\ finalized' = IF total_sent_frames > 0 THEN Some(Len(posts)) ELSE finalized
    /\ pc' = "stopped"
    /\ UNCHANGED << args, fps, first_frame, door_oracle, rooms, doors_locked, track_states,
                    room_stats, prev_room_signature, frame_index, frames_read, boxes, i, j,
                    foot, step, first_sample, invalidated, overlay, printed, trace, crossings, legacy,
                    passes_run, last_pass, call, result, detector_vars, env, batch,
                    total_sent_frames, post_count, posting, escaped, appended, posts,
                    loop_exit >>

NextUploader ==
    \/ UploaderHandleStop
    \/ UploaderWhile
    \/ UploaderRead
    \/ UploaderPost
    \/ UploaderAfterPost
    \/ UploaderFinally
    \/ UploaderFinalize

SpecUploader == InitUploader /\ [][NextUploader]_vars

\* post_batch_with_retry on its own, for a batch of one to three frames: POST_RETRIES is
\* whatever integer the environment holds, here -1 to 3.
InitRetry ==
    \E retries \in -1 .. 3, size \in 1 .. 3, where \in {"loop", "finally"} :
        /\ args = DefaultArgs
        /\ pc = "post"
        /\ call = Some([fn |-> "post_batch_with_retry"])
        /\ result = NoneVal
        /\ BeforeLoop
        /\ env = Some([BATCH_SIZE |-> 3, POST_RETRIES |-> retries, is_file_source |-> FALSE,
                       clip |-> FALSE])
        /\ batch = [k \in 1 .. size |-> k]
        /\ total_sent_frames = 0
        /\ post_count = 1
        /\ posting = EnterPost([k \in 1 .. size |-> k], where)
        /\ escaped = NoneVal
        /\ appended = [k \in 1 .. size |-> k]
        /\ posts = << >>
        /\ loop_exit = NoneVal
        /\ finalized = NoneVal

\* The thread in post_batch_with_retry takes its next step: every call of post_batch
\* returns or raises within REQUEST_TIMEOUT_SECONDS and every sleep ends.
SpecRetry == InitRetry /\ [][UploaderPost]_vars /\ WF_vars(UploaderPost)

(***************************************************************************)
(* Properties of the crossing loop                                         *)
(***************************************************************************)
\* The sample and room the next RoomStep works on, and after a step the one it worked on.
CurTid == boxes[i].tid
CurRoom == rooms[j]
Done == Get(step)

Entered(stats, rid) == IF rid \in DOMAIN stats THEN stats[rid].entered ELSE 0
Left(stats, rid) == IF rid \in DOMAIN stats THEN stats[rid].left ELSE 0

NonZero(s) == SelectSeq(s, LAMBDA v : v # 0)

\* Number of adjacent pairs (from, to) in s.
Changes(s, from, to) == Cardinality({ k \in 1 .. (Len(s) - 1) : s[k] = from /\ s[k + 1] = to })

\* Adjacent sign changes of s in the entry direction dir, and the others.
EntryChanges(s, dir) == IF dir = "down" THEN Changes(s, -1, 1) ELSE Changes(s, 1, -1)
ExitChanges(s, dir) == IF dir = "down" THEN Changes(s, 1, -1) ELSE Changes(s, -1, 1)

TraceOf(t, rid) == GetOr(Get(trace), << t, rid >>, << >>)

\* Sum of the function f over its domain.
RECURSIVE SumOver(_)
SumOver(f) ==
    IF DOMAIN f = {} THEN 0
    ELSE LET x == CHOOSE y \in DOMAIN f : TRUE
         IN  f[x] + SumOver([y \in (DOMAIN f) \ {x} |-> f[y]])

\* C1: while no invalidation has happened, the counters of every boundary equal the
\* numbers of adjacent sign changes among the non-zero samples fed for it: entered counts
\* those in the boundary's entry direction, left the others (summed over the tracks);
\* the dead-zone samples of the sequences do not enter the count.
C1_CountsAreSignChanges ==
    ~IsNone(trace) =>
        \A k \in DOMAIN rooms :
            LET r == rooms[k]
                ent == [t \in TrackIds |->
                           EntryChanges(NonZero(TraceOf(t, r.room_id)), r.direction)]
                ext == [t \in TrackIds |->
                           ExitChanges(NonZero(TraceOf(t, r.room_id)), r.direction)]
            IN  /\ room_stats[r.room_id].entered = SumOver(ent)
                /\ room_stats[r.room_id].left = SumOver(ext)

\* A track fed -1, 0, +1, -1 against a boundary: one change each way, the 0 ignored.
C1_Witness ==
    /\ ~IsNone(trace)
    /\ \E k \in DOMAIN rooms :
         /\ TraceOf(1, rooms[k].room_id) = << -1, 0, 1, -1 >>
         /\ TraceOf(2, rooms[k].room_id) = << >>
         /\ room_stats[rooms[k].room_id] = [entered |-> 1, left |-> 1]

\* C2: a refresh that changes the signature of the active rooms clears all track memory,
\* and the first sample of a track after a clearing (the one that creates its TrackState)
\* changes no counter.
C2_Invalidation ==
    [][ /\ (pc = "refresh" /\ room_signature(rooms') # room_signature(rooms))
              => track_states' = EmptyMap
        /\ (pc = "room" /\ first_sample) => room_stats' = room_stats ]_vars

\* After a clearing in this frame, a track's first sample adopted a side in a room that
\* had already counted a crossing.
C2_Witness ==
    /\ invalidated
    /\ first_sample
    /\ ~IsNone(step)
    /\ Done.curr_side # 0
    /\ Done.prev_side = NoneVal
    /\ Entered(room_stats, Done.room.room_id) + Left(room_stats, Done.room.room_id) > 0

ClampedOccupancy(r, stats) ==
    IF r.initial_occupancy + stats.entered - stats.left > 0
    THEN r.initial_occupancy + stats.entered - stats.left
    ELSE 0

ShowsCurrent(lines) ==
    /\ DOMAIN lines = DOMAIN rooms
    /\ \A k \in DOMAIN rooms :
         /\ lines[k].room_id = rooms[k].room_id
         /\ lines[k].occupancy = ClampedOccupancy(rooms[k], room_stats[rooms[k].room_id])

\* C3: what is drawn after a frame and what the final summary prints is, for every
\* room, max(0, initial_occupancy + entered - left) of the current counters, and no
\* occupancy shown is negative.
C3_OccupancyClamped ==
    /\ (pc \in {"read", "summary", "done"} /\ ~IsNone(overlay)) => ShowsCurrent(Get(overlay))
    /\ pc = "done" => ShowsCurrent(Get(printed))
    /\ ~IsNone(overlay) => \A k \in DOMAIN Get(overlay) : Get(overlay)[k].occupancy >= 0
    /\ ~IsNone(printed) => \A k \in DOMAIN Get(printed) : Get(printed)[k].occupancy >= 0

\* More exits than entries plus the initial offset, shown as 0.
C3_Witness ==
    /\ pc = "done"
    /\ \E k \in DOMAIN rooms :
         /\ room_stats[rooms[k].room_id].left
                > rooms[k].initial_occupancy + room_stats[rooms[k].room_id].entered
         /\ Get(printed)[k].occupancy = 0
         /\ Get(overlay)[k].occupancy = 0

\* The stored side of some track for rid flips from s to -s in this step.
Flips(rid) ==
    \E t \in DOMAIN track_states :
        /\ t \in DOMAIN track_states'
        /\ rid \in DOMAIN track_states[t]
        /\ rid \in DOMAIN track_states'[t]
        /\ track_states[t][rid] # 0
        /\ track_states'[t][rid] = -track_states[t][rid]

\* C4: a counter of a room changes only in a step in which a track's stored side for
\* that room flips from s to -s, and every such step adds exactly 1 to exactly one of
\* the two counters of the room.
C4_CountOnlyOnFlip ==
    [][ \A rid \in (DOMAIN room_stats) \cup (DOMAIN room_stats') :
          /\ (Entered(room_stats', rid) # Entered(room_stats, rid)
                 \/ Left(room_stats', rid) # Left(room_stats, rid)) => Flips(rid)
          /\ Flips(rid) =>
                /\ Entered(room_stats', rid) >= Entered(room_stats, rid)
                /\ Left(room_stats', rid) >= Left(room_stats, rid)
                /\ (Entered(room_stats', rid) - Entered(room_stats, rid))
                     + (Left(room_stats', rid) - Left(room_stats, rid)) = 1 ]_vars

\* A crossing counted in the second frame: the two samples of the track are on
\* consecutive frames on opposite sides, with no dead-zone sample in between.
C4_Witness ==
    /\ frame_index = 1
    /\ ~IsNone(step)
    /\ Done.prev_side = Some(-Done.curr_side)
    /\ Entered(room_stats, Done.room.room_id) + Left(room_stats, Done.room.room_id) = 1

\* C5: every stored side is -1 or +1, and a sample classified 0 leaves the stored side
\* of its track for the room as it was, unset included.
C5_DeadZoneKeepsMemory ==
    /\ [](\A t \in DOMAIN track_states : \A rid \in DOMAIN track_states[t] :
              track_states[t][rid] \in {-1, 1})
    /\ [][ (pc = "room" /\ Get(step').curr_side = 0) =>
              StoredSide(track_states', CurTid, CurRoom.room_id)
                  = StoredSide(track_states, CurTid, CurRoom.room_id) ]_vars

\* A dead-zone sample processed for a track that had a stored side, which it keeps.
C5_Witness ==
    /\ ~IsNone(step)
    /\ Done.curr_side = 0
    /\ Done.prev_side # NoneVal
    /\ StoredSide(track_states, Done.tid, Done.room.room_id) = Done.prev_side

\* C6: a sample classified on the side already stored leaves the stored side and both
\* counters as they were.
C6_SameSideIdempotent ==
    [][ (/\ pc = "room"
         /\ Get(step').curr_side # 0
         /\ StoredSide(track_states, CurTid, CurRoom.room_id) = Some(Get(step').curr_side))
        => /\ StoredSide(track_states', CurTid, CurRoom.room_id)
                 = Some(Get(step').curr_side)
           /\ room_stats' = room_stats ]_vars

\* The same side sampled again after a counted crossing.
C6_Witness ==
    /\ ~IsNone(step)
    /\ Done.curr_side # 0
    /\ Done.prev_side = Some(Done.curr_side)
    /\ Entered(room_stats, Done.room.room_id) + Left(room_stats, Done.room.room_id) > 0

\* C7: with no stored side for the room, a non-zero classification becomes the stored
\* side and no counter changes.
C7_AdoptWithoutEvent ==
    [][ (/\ pc = "room"
         /\ Get(step').curr_side # 0
         /\ StoredSide(track_states, CurTid, CurRoom.room_id) = NoneVal)
        => /\ StoredSide(track_states', CurTid, CurRoom.room_id)
                 = Some(Get(step').curr_side)
           /\ room_stats' = room_stats ]_vars

\* A track seen before without a side for the room adopts one.
C7_Witness ==
    /\ ~IsNone(step)
    /\ ~first_sample
    /\ Done.curr_side # 0
    /\ Done.prev_side = NoneVal
    /\ StoredSide(track_states, Done.tid, Done.room.room_id) = Some(Done.curr_side)

Label(p, c) ==
    IF p = -1 /\ c = 1 THEN "down" ELSE IF p = 1 /\ c = -1 THEN "up" ELSE "None"

\* C8: -1 -> +1 is labelled "down" and +1 -> -1 "up", any other pair has no label; a
\* labelled crossing adds 1 to entered when the label is the room's direction and 1 to
\* left otherwise, and touches nothing else.
C8_DirectionLabels ==
    /\ [](\A p \in Sides, c \in Sides : crossing_direction(p, c) = Label(p, c))
    /\ [][ (pc = "room" /\ ~IsNone(StoredSide(track_states, CurTid, CurRoom.room_id)))
           => LET p == Get(StoredSide(track_states, CurTid, CurRoom.room_id))
                  c == Get(step').curr_side
                  rid == CurRoom.room_id
              IN  /\ Label(p, c) # "None" => Get(step').direction = Label(p, c)
                  /\ (Label(p, c) # "None" /\ Label(p, c) = CurRoom.direction)
                        => room_stats' = [room_stats EXCEPT ![rid].entered = @ + 1]
                  /\ (Label(p, c) # "None" /\ Label(p, c) # CurRoom.direction)
                        => room_stats' = [room_stats EXCEPT ![rid].left = @ + 1]
                  /\ Label(p, c) = "None" => room_stats' = room_stats ]_vars

\* Direction "down": a track above the line and, on the next frame, below it: one entry.
C8_Witness ==
    /\ frame_index = 1
    /\ ~IsNone(step)
    /\ Done.room.direction = "down"
    /\ Done.prev_side = Some(-1)
    /\ Done.curr_side = 1
    /\ Done.direction = "down"
    /\ room_stats[Done.room.room_id] = [entered |-> 1, left |-> 0]

\* C9: the counters kept under a room id never decrease and are never dropped; they
\* change by one +1 at a time, and only in the room loop.
C9_CountersMonotone ==
    [][ \A rid \in DOMAIN room_stats :
          /\ rid \in DOMAIN room_stats'
          /\ room_stats'[rid].entered >= room_stats[rid].entered
          /\ room_stats'[rid].left >= room_stats[rid].left
          /\ (room_stats'[rid].entered - room_stats[rid].entered)
               + (room_stats'[rid].left - room_stats[rid].left) <= 1
          /\ room_stats'[rid] # room_stats[rid] => pc = "room" ]_vars

\* A refresh has just changed the geometry and cleared the track memory, and the
\* crossings counted before it are still there.
C9_Witness ==
    /\ pc = "track"
    /\ invalidated
    /\ track_states = EmptyMap
    /\ \E rid \in DOMAIN room_stats : room_stats[rid].entered + room_stats[rid].left > 0

\* C10: for a vertical gate at x = gx the side of a point is -1 when x < gx - margin,
\* +1 when x > gx + margin and 0 only in between.
C10_VerticalGateSides ==
    (~IsNone(step) /\ Done.room.gate_x1 = Done.room.gate_x2) =>
        Done.curr_side = IF Done.foot[1] < Done.room.gate_x1 - Done.room.line_margin THEN -1
                         ELSE IF Done.foot[1] > Done.room.gate_x1 + Done.room.line_margin THEN 1
                         ELSE 0

Abs(n) == IF n < 0 THEN -n ELSE n

\* (y - y_on_gate) * |dx| for the point (x, y) and the non-vertical gate of room r, where
\* y_on_gate is the y-value of the gate's line at x.
Above(x, y, r) ==
    LET dx == r.gate_x2 - r.gate_x1
        d == (y - r.gate_y1) * dx - (x - r.gate_x1) * (r.gate_y2 - r.gate_y1)
    IN  IF dx < 0 THEN -d ELSE d

OutsideSpan(x, r) ==
    \/ x < Min(r.gate_x1, r.gate_x2) - r.line_margin
    \/ x > Max(r.gate_x1, r.gate_x2) + r.line_margin

InBand(x, y, r) ==
    /\ ~OutsideSpan(x, r)
    /\ Abs(Above(x, y, r)) <= r.line_margin * Abs(r.gate_x2 - r.gate_x1)

\* C11: for a non-vertical gate the side of a point is 0 exactly when its x is outside
\* the gate's x-span widened by the margin or its y is within the margin of the gate's
\* y-value at x; otherwise -1 when y is below that value minus the margin and +1 when
\* above it plus the margin.  So a sample within the band of a track whose stored side
\* is -1 changes no counter and leaves the stored side at -1, sample after sample.
C11_DeadZoneBand ==
    /\ [](( ~IsNone(step) /\ Done.room.gate_x1 # Done.room.gate_x2) =>
            LET r == Done.room
                w == r.line_margin * Abs(r.gate_x2 - r.gate_x1)
            IN  /\ Done.curr_side = 0 <=>
                       (OutsideSpan(Done.foot[1], r) \/ InBand(Done.foot[1], Done.foot[2], r))
                /\ Done.curr_side = -1 <=>
                       (~OutsideSpan(Done.foot[1], r) /\ Above(Done.foot[1], Done.foot[2], r) < -w)
                /\ Done.curr_side = 1 <=>
                       (~OutsideSpan(Done.foot[1], r) /\ Above(Done.foot[1], Done.foot[2], r) > w))
    /\ [][ (/\ pc = "room"
             /\ CurRoom.gate_x1 # CurRoom.gate_x2
             /\ InBand(foot[1], foot[2], CurRoom)
             /\ StoredSide(track_states, CurTid, CurRoom.room_id) = Some(-1))
            => /\ room_stats' = room_stats
               /\ StoredSide(track_states', CurTid, CurRoom.room_id) = Some(-1) ]_vars

\* A track above the line, then twice within its band (2 below a line with margin 6):
\* no event for the room.
C11_Witness ==
    /\ ~IsNone(trace)
    /\ ~IsNone(step)
    /\ TraceOf(Done.tid, Done.room.room_id) = << -1, 0, 0 >>
    /\ InBand(Done.foot[1], Done.foot[2], Done.room)
    /\ Done.foot[2] = Done.room.gate_y1 + 2
    /\ room_stats[Done.room.room_id] = RoomStats
    /\ StoredSide(track_states, Done.tid, Done.room.room_id) = Some(-1)

(***************************************************************************)
(* Properties of the door refresh and of the source of the boundaries      *)
(***************************************************************************)
\* The step is a detection pass run by the refresh of a frame.
PassRuns == pc = "refresh" /\ passes_run' = passes_run + 1

\* What the pass of the step returned.
Returned == detect_doors_from_frame(args, Get(door_oracle'))

\* C12 as stated: after a refresh whose pass accepted at least one door the active list
\* is exactly the list that pass returned.
C12_ReplacedWholesale ==
    [][ (PassRuns /\ Returned # << >>) => rooms' = Returned ]_vars

\* C12: after a refresh whose pass accepted at least one door the active list is the
\* list that pass returned when it has at least as many boundaries as the active one,
\* and the active list as it was otherwise; never anything else.
C12_ReplacedOrKept ==
    [][ (PassRuns /\ Returned # << >>)
        => /\ Len(Returned) >= Len(rooms) => rooms' = Returned
           /\ Len(Returned) < Len(rooms) => rooms' = rooms ]_vars

\* A refresh after the first frame has replaced the active list by a different one, the
\* list its pass returned.
C12_Witness ==
    /\ pc = "track"
    /\ frame_index > 0
    /\ invalidated
    /\ ~IsNone(door_oracle)
    /\ rooms # << >>
    /\ rooms = detect_doors_from_frame(args, Get(door_oracle))
    /\ last_pass = Some(Len(rooms))

CountersOf(stats) ==
    [rid \in { RoomName(k) : k \in 1 .. 4 } |-> << Entered(stats, rid), Left(stats, rid) >>]

C14_LockedAfterDetect ==
    [][ (/\ args.lock_doors_on_detect
         /\ DoorModelLoaded(args)
         /\ ~IsNone(last_pass)
         /\ Get(last_pass) > 0)
        => /\ passes_run' = passes_run
           /\ last_pass' = last_pass
           /\ rooms' = rooms
           /\ prev_room_signature' = prev_room_signature
           /\ pc = "refresh" => track_states' = track_states ]_vars

\* A frame on which a refresh was due went by after the lock, with track memory kept.
C14_Witness ==
    /\ args.lock_doors_on_detect
    /\ doors_locked
    /\ passes_run = 3
    /\ frame_index = 3
    /\ pc = "track"
    /\ track_states # EmptyMap
    /\ rooms # << >>

\* The cadence the command line asks for: --door-refresh-frames when it is the one
\* given, --door-refresh-seconds otherwise.
ConfiguredCadence ==
    IF /\ args.door_refresh_frames # DefaultArgs.door_refresh_frames
       /\ args.door_refresh_seconds = DefaultArgs.door_refresh_seconds
    THEN Max(1, args.door_refresh_frames)
    ELSE Max(1, RoundHalfEven(Max(5, Get(args.door_refresh_seconds)) * fps, 100))

\* C15: in auto mode without lock a detection pass is run by the refresh of exactly the
\* frames whose index is a multiple of the configured cadence.
C15_RefreshCadence ==
    [][ (pc = "refresh" /\ DoorModelLoaded(args) /\ ~args.lock_doors_on_detect)
        => (passes_run' = passes_run + 1 <=> frame_index % ConfiguredCadence = 0) ]_vars

\* The gate of room r is the one the config object item asks for.
GateOfItem(r, item) ==
    IF {"gate_x1", "gate_y1", "gate_x2", "gate_y2"} \subseteq DOMAIN item
    THEN << r.gate_x1, r.gate_y1, r.gate_x2, r.gate_y2 >>
             = << item.gate_x1, item.gate_y1, item.gate_x2, item.gate_y2 >>
    ELSE r.gate_y1 = item.line /\ r.gate_y2 = item.line

IdOfItem(item) == IF "room_id" \in DOMAIN item THEN item.room_id ELSE item.id

\* The single room of the manual line.
IsManualLine(rs) ==
    /\ Len(rs) = 1
    /\ rs[1].room_id = "room_1"
    /\ rs[1].gate_y1 = Get(args.line)
    /\ rs[1].gate_y2 = Get(args.line)
    /\ 0 <= rs[1].gate_x1
    /\ rs[1].gate_x1 <= rs[1].gate_x2
    /\ rs[1].gate_x2 <= Video.width

\* C16: with --rooms-config the boundaries are those of the config and no detection
\* pass is ever run, --auto-detect-doors or not; otherwise with --auto-detect-doors the
\* boundaries are those a detection pass returned and --line is ignored; with neither,
\* the boundary is the manual line.
C16_SourcePrecedence ==
    /\ ~IsNone(args.rooms_config) =>
          /\ passes_run = 0
          /\ DOMAIN rooms = DOMAIN ConfigFiles[Get(args.rooms_config)].items
          /\ \A k \in DOMAIN rooms :
                /\ rooms[k].room_id = IdOfItem(ConfigFiles[Get(args.rooms_config)].items[k].obj)
                /\ GateOfItem(rooms[k], ConfigFiles[Get(args.rooms_config)].items[k].obj)
    /\ (IsNone(args.rooms_config) /\ args.auto_detect_doors) =>
          /\ passes_run >= 1
          /\ \E gates \in DoorPasses : rooms = detect_doors_from_frame(args, gates)
          /\ ~IsNone(args.line) => ~IsManualLine(rooms)
    /\ (IsNone(args.rooms_config) /\ ~args.auto_detect_doors) =>
          /\ passes_run = 0
          /\ IsManualLine(rooms)

\* A run with --rooms-config and --auto-detect-doors after its third frame, on the
\* config's room and without a detection pass.
C16_Witness ==
    /\ ~IsNone(args.rooms_config)
    /\ args.auto_detect_doors
    /\ frame_index = 3
    /\ passes_run = 0
    /\ rooms[1].room_id = "closet"

(***************************************************************************)
(* Properties of load_rooms                                                *)
(***************************************************************************)
ConfigMode == ~IsNone(args.rooms_config)
ManualMode == IsNone(args.rooms_config) /\ ~args.auto_detect_doors

\* The list of rooms of the config file: the payload, or its "rooms" member.
FileRooms ==
    LET payload == ConfigFiles[Get(args.rooms_config)]
    IN  IF payload.kind = "dict" /\ "rooms" \in DOMAIN payload.obj THEN payload.obj.rooms
        ELSE payload

NotNonEmptyList == ConfigMode /\ (FileRooms.kind # "list" \/ Len(FileRooms.items) = 0)

\* Indexes of the entries of the config's list that are no objects, that lack the gate
\* fields, and whose direction is not allowed.
NotObjectAt ==
    IF ConfigMode /\ ~NotNonEmptyList
    THEN { k \in DOMAIN FileRooms.items : FileRooms.items[k].kind # "dict" }
    ELSE {}

LacksGateAt ==
    IF ConfigMode /\ ~NotNonEmptyList
    THEN { k \in (DOMAIN FileRooms.items) \ NotObjectAt :
             /\ \E f \in {"gate_x1", "gate_y1", "gate_x2", "gate_y2"} :
                    f \notin DOMAIN FileRooms.items[k].obj
             /\ "line" \notin DOMAIN FileRooms.items[k].obj }
    ELSE {}

BadDirectionAt ==
    IF ConfigMode /\ ~NotNonEmptyList
    THEN { k \in (DOMAIN FileRooms.items) \ NotObjectAt :
             IF "direction" \in DOMAIN FileRooms.items[k].obj
             THEN FileRooms.items[k].obj.direction \notin Directions
             ELSE args.direction \notin Directions }
    ELSE {}

Unpaired == IsNone(args.line_x1) # IsNone(args.line_x2)

\* load_rooms has raised: no rooms, and the run never reached a frame.
Failed ==
    /\ ~IsNone(Get(result).raised)
    /\ Get(result).rooms = << >>
    /\ rooms = << >>
    /\ pc = "failed"
    /\ frame_index = 0
    /\ first_frame

\* A missing gate is reported with the index of a room that lacks it; rooms returned
\* from a config or the manual line have an allowed direction.
IndexAndDirections ==
    /\ (~IsNone(Get(result).raised) /\ Get(Get(result).raised).check = "gate_points_or_line")
          => \E k \in LacksGateAt : Get(Get(result).raised).room_index = Some(k)
    /\ (IsNone(Get(result).raised) /\ (ConfigMode \/ ManualMode))
          => \A k \in DOMAIN Get(result).rooms :
                 Get(result).rooms[k].direction \in {"down", "up"}

C18_NmsIdempotent ==
    pc = "nms_done" => Get(result).again = Some(Get(result).kept)

\* Two calls made, the first of which suppressed one detection of three and kept two
\* of equal confidence.
C18_Witness ==
    /\ pc = "nms_done"
    /\ Len(Get(call).detections) = 3
    /\ Len(Get(result).kept) = 2
    /\ Get(result).kept[1][1] = Get(result).kept[2][1]
    /\ Get(result).again = Some(Get(result).kept)

Area(b) == (b[3] - b[1]) * (b[4] - b[2])

Overlap(a, b) ==
    LET w == (IF a[3] < b[3] THEN a[3] ELSE b[3]) - (IF a[1] > b[1] THEN a[1] ELSE b[1])
        h == (IF a[4] < b[4] THEN a[4] ELSE b[4]) - (IF a[2] > b[2] THEN a[2] ELSE b[2])
    IN  IF w > 0 /\ h > 0 THEN w * h ELSE 0

\* IoU of the boxes a and b strictly below t hundredths.
IouBelow(a, b, t) == Overlap(a, b) * 100 < t * (Area(a) + Area(b) - Overlap(a, b))

\* Position p of ds ranks above position q: higher confidence, or the same and earlier.
Higher(ds, p, q) == ds[p][1] > ds[q][1] \/ (ds[p][1] = ds[q][1] /\ p < q)

\* C19: what nms_detections returns is ordered by confidence descending, holds the
\* detection of highest confidence, and holds a detection exactly when its IoU with
\* every kept detection ranked above it is strictly below the threshold; so every two
\* kept boxes have IoU below the threshold.
C19_NmsKeepsGreedy ==
    ~IsNone(result) =>
        LET ds == Get(call).detections
            t == Get(call).iou_threshold
            kept == Get(result).kept
        IN  /\ \A a, b \in DOMAIN kept : a < b => kept[a][1] >= kept[b][1]
            /\ ds # << >> =>
                  /\ kept # << >>
                  /\ \E p \in DOMAIN ds : /\ kept[1] = ds[p]
                                          /\ \A q \in DOMAIN ds : ds[q][1] <= ds[p][1]
            /\ \E P \in SUBSET (DOMAIN ds) :
                  /\ \A p \in DOMAIN ds :
                        p \in P <=> \A q \in P : Higher(ds, q, p)
                                                   => IouBelow(ds[p][2], ds[q][2], t)
                  /\ Len(kept) = Cardinality(P)
                  /\ \A p \in P :
                        kept[1 + Cardinality({ q \in P : Higher(ds, q, p) })] = ds[p]
            /\ \A a, b \in DOMAIN kept : a # b => IouBelow(kept[a][2], kept[b][2], t)

\* Two boxes of IoU 0.5 under threshold 0.45, the lower confidence first: only the one
\* of higher confidence is returned.
C19_Witness ==
    /\ ~IsNone(result)
    /\ Get(call).detections = << << 80, BoxMiddle, "doorway" >>, << 90, BoxLeft, "door" >> >>
    /\ Get(call).iou_threshold = 45
    /\ Overlap(BoxLeft, BoxMiddle) * 2
           = Area(BoxLeft) + Area(BoxMiddle) - Overlap(BoxLeft, BoxMiddle)
    /\ Get(result).kept = << << 90, BoxLeft, "door" >> >>

(***************************************************************************)
(* Properties of the detection pass                                        *)
(***************************************************************************)
\* The checks of a candidate record c of the pass, each on its own: the frame is
\* Get(call).frame and n rooms have been accepted before it.
CapReached(n) == n >= (IF args.max_doors > 1 THEN args.max_doors ELSE 1)

TooNarrow(c) ==
    LET w == Get(call).frame.width
        lo == IF c.x1 < 0 THEN 0 ELSE IF c.x1 > w THEN w ELSE c.x1
        hi == IF c.x2 < 0 THEN 0 ELSE IF c.x2 > w THEN w ELSE c.x2
    IN  Abs(hi - lo) < args.door_min_width

TooTall(c) == (c.y2 - c.y1) * 100 > args.door_max_height_ratio * Get(call).frame.height

\* --door-negative-iou, in hundredths, brought into [0, 1]
NegativeThreshold ==
    IF args.door_negative_iou < 0 THEN 0
    ELSE IF args.door_negative_iou > 100 THEN 100 ELSE args.door_negative_iou

OverlapsNegative(c) ==
    \E n \in DOMAIN Get(call).negative_detections :
        ~IouBelow(<< c.x1, c.y1, c.x2, c.y2 >>, Get(call).negative_detections[n][2],
                  NegativeThreshold)

MissingEdge(c) ==
    /\ args.door_require_edge_threshold
    /\ << c.x1, c.y1, c.x2, c.y2 >> \notin DOMAIN Get(call).frame.edges

\* The reason of the first check of c that fails, "accepted" when none does.
FirstFailing(c, n) ==
    IF CapReached(n) THEN "max_doors_reached"
    ELSE IF TooNarrow(c) THEN "too_narrow"
    ELSE IF TooTall(c) THEN "too_tall_for_door"
    ELSE IF OverlapsNegative(c) THEN "overlaps_negative_prompt"
    ELSE IF MissingEdge(c) THEN "missing_threshold_edge"
    ELSE "accepted"

AcceptedBefore(cs, k) == Cardinality({ m \in 1 .. (k - 1) : cs[m].accepted })

\* C20: every detection remaining after NMS has exactly one candidate record, in
\* confidence-descending order; the reason of a record is that of the first failing
\* check in the order capacity, width, height, negative overlap, threshold edge; it is
\* accepted exactly when no check fails; as many records are accepted as rooms are
\* returned.
C20_OneCandidatePerDetection ==
    pc = "detected" =>
        LET cs == Get(result).candidates
            remaining == RemainingDetections(args, Get(call).frame, Get(call).detections)
        IN  /\ ~args.door_split_wide_boxes
                  => remaining = nms_detections(Get(call).detections, args.door_nms_iou)
            /\ Len(cs) = Len(remaining)
            /\ \A k \in DOMAIN cs :
                  /\ << cs[k].conf, << cs[k].x1, cs[k].y1, cs[k].x2, cs[k].y2 >>,
                        cs[k].prompt >> = remaining[k]
                  /\ \A m \in DOMAIN cs : k < m => cs[k].conf >= cs[m].conf
                  /\ cs[k].accepted <=> FirstFailing(cs[k], AcceptedBefore(cs, k)) = "accepted"
                  /\ ~cs[k].accepted
                        => cs[k].reason = FirstFailing(cs[k], AcceptedBefore(cs, k))
                  /\ cs[k].accepted => cs[k].reason \in {"accepted_edge", "accepted_fallback"}
            /\ Cardinality({ k \in DOMAIN cs : cs[k].accepted }) = Len(Get(result).rooms)

\* A pass of two records: one accepted, one rejected as too narrow that is too tall as
\* well, and one room returned.
C20_Witness ==
    /\ pc = "detected"
    /\ Len(Get(result).candidates) = 2
    /\ Len(Get(result).rooms) = 1
    /\ \E k, m \in DOMAIN Get(result).candidates :
         /\ Get(result).candidates[k].accepted
         /\ Get(result).candidates[m].reason = "too_narrow"
         /\ TooTall(Get(result).candidates[m])

\* The threshold-line analysis finds no line in the box of c: the gate fitted for c
\* is the flat line.
FitsFallback(c) == << c.x1, c.y1, c.x2, c.y2 >> \notin DOMAIN Get(call).frame.edges

\* The flat line of c, at line_offset above the bottom of its box.
FlatLine(c) ==
    << c.x1, c.y2 - args.door_line_offset, c.x2, c.y2 - args.door_line_offset >>

GateLine(r) == << r.gate_x1, r.gate_y1, r.gate_x2, r.gate_y2 >>

\* C21: a candidate that passes the capacity, width, height and negative-overlap checks
\* and whose gate is the fallback flat line is accepted with reason accepted_fallback
\* and yields a boundary on that line when --door-require-edge-threshold is not set;
\* when it is set the candidate is rejected with reason missing_threshold_edge, yields
\* no boundary and leaves the number of accepted doors as it was.
C21_FallbackAcceptance ==
    pc = "detected" =>
        LET cs == Get(result).candidates
            rs == Get(result).rooms
        IN  \A k \in DOMAIN cs :
                LET c == cs[k]
                    n == AcceptedBefore(cs, k)
                IN  ( /\ ~CapReached(n)
                      /\ ~TooNarrow(c)
                      /\ ~TooTall(c)
                      /\ ~OverlapsNegative(c)
                      /\ FitsFallback(c) )
                    => IF ~args.door_require_edge_threshold
                       THEN /\ c.accepted
                            /\ c.reason = "accepted_fallback"
                            /\ \E r \in DOMAIN rs : GateLine(rs[r]) = FlatLine(c)
                            /\ AcceptedBefore(cs, k + 1) = n + 1
                       ELSE /\ ~c.accepted
                            /\ c.reason = "missing_threshold_edge"
                            /\ \A r \in DOMAIN rs : GateLine(rs[r]) # FlatLine(c)
                            /\ AcceptedBefore(cs, k + 1) = n
                            /\ Len(rs) = Cardinality({ m \in DOMAIN cs : cs[m].accepted })

\* With --max-doors 1 and the threshold edge required, a first candidate without an edge
\* is rejected as missing_threshold_edge and the second, with an edge, is still accepted.
C21_Witness ==
    /\ pc = "detected"
    /\ args.door_require_edge_threshold
    /\ args.max_doors = 1
    /\ Len(Get(result).candidates) = 2
    /\ Get(result).candidates[1].reason = "missing_threshold_edge"
    /\ FitsFallback(Get(result).candidates[1])
    /\ Get(result).candidates[2].reason = "accepted_edge"
    /\ Len(Get(result).rooms) = 1

IouExceeds(a, b, t) == Overlap(a, b) * 100 > t * (Area(a) + Area(b) - Overlap(a, b))

\* C22: a candidate that reaches the negative-prompt check (capacity, width and height
\* passed) is rejected with reason overlaps_negative_prompt if and only if its IoU with
\* at least one negative box exceeds --door-negative-iou brought into [0, 1]; with every
\* IoU at most the threshold it is not rejected for that reason.
C22_NegativeOverlapStrict ==
    pc = "detected" =>
        LET cs == Get(result).candidates
            negs == Get(call).negative_detections
        IN  \A k \in DOMAIN cs :
                LET c == cs[k]
                IN  ( /\ ~CapReached(AcceptedBefore(cs, k))
                      /\ ~TooNarrow(c)
                      /\ ~TooTall(c) )
                    => ( c.reason = "overlaps_negative_prompt"
                           <=> \E n \in DOMAIN negs :
                                   IouExceeds(<< c.x1, c.y1, c.x2, c.y2 >>, negs[n][2],
                                              NegativeThreshold) )

\* C23: a non-empty boundary list returned by a detection pass is sorted left to right
\* by the horizontal midpoint of the gate, (gate_x1 + gate_x2) / 2, and its boundaries
\* are named room_1, room_2, ..., room_n in that order: the identifiers of one pass are
\* non-empty and pairwise distinct.
C23_SortedAndNumbered ==
    pc = "detected" =>
        LET rs == Get(result).rooms
        IN  /\ \A k \in DOMAIN rs :
                  /\ rs[k].room_id = RoomName(k)
                  /\ rs[k].room_id # ""
            /\ \A k, m \in DOMAIN rs :
                  /\ k < m => rs[k].gate_x1 + rs[k].gate_x2 <= rs[m].gate_x1 + rs[m].gate_x2
                  /\ k # m => rs[k].room_id # rs[m].room_id

\* A pass whose most confident accepted candidate lies right of the next one: the
\* boundaries come back in the other order than they were accepted in.
C23_Witness ==
    /\ pc = "detected"
    /\ Len(Get(result).rooms) = 2
    /\ Len(Get(result).candidates) = 2
    /\ Get(result).candidates[1].accepted
    /\ Get(result).candidates[2].accepted
    /\ Get(result).candidates[1].x1 > Get(result).candidates[2].x2
    /\ Get(result).rooms[1].gate_x1 = Get(result).candidates[2].x1
    /\ Get(result).rooms[1].room_id = "room_1"
    /\ Get(result).rooms[2].gate_x1 = Get(result).candidates[1].x1

(***************************************************************************)
(* Properties of run_detector                                              *)
(***************************************************************************)
\* Calls of check_room_high_risk made for the k-th processed frame
RiskCallsFor(k) == Cardinality({ c \in DOMAIN risk_calls : risk_calls[c].frame = k })

FailedReplies == {"timeout", "connection_error", "http_error", "not_json", "not_object"}

\* The risk check of the frame being handled is still to be made
RiskCheckPending == pc = "risk_check"

\* C24: the risk check is called once for each frame whose entry_event is true and for
\* no other frame; a call that fails by timeout or transport error, by HTTP error
\* status or by a malformed response is logged, is not repeated, and the loop goes back
\* to its head to read the next frame; the loop ends only at its head with should_stop
\* set, never with an exception of the risk check.
C24_RiskCheckPerEntry ==
    /\ [](\A k \in DOMAIN processed :
            RiskCallsFor(k) = IF processed[k].entry_event
                                 /\ ~(k = Len(processed) /\ RiskCheckPending)
                              THEN 1 ELSE 0)
    /\ [](pc = "stopped" => IsNone(Get(result).raised))
    /\ [][ /\ risk_calls' # risk_calls
              => /\ Len(risk_calls') = Len(risk_calls) + 1
                 /\ pc' = "while"
                 /\ processed' = processed
                 /\ risk_calls'[Len(risk_calls')].reply \in FailedReplies
                       => console' = Append(console, "room-risk check failed")
           /\ (pc # "stopped" /\ pc' = "stopped") => (pc = "while" /\ should_stop) ]_vars

\* A check that failed on a malformed response, and a frame processed after it.
C24_Witness ==
    /\ Len(risk_calls) = 1
    /\ risk_calls[1].reply = "not_object"
    /\ Len(processed) > risk_calls[1].frame
    /\ ~should_stop

\* C25: entry_event of a processed frame is true exactly when the count of the frame
\* processed before it was 0, or it is the first, and its own count is greater than 0;
\* so no two consecutive processed frames both have it, and between two frames that
\* have it some processed frame has count 0.
C25_EntryOnZeroToPositive ==
    /\ \A k \in DOMAIN processed :
          processed[k].entry_event
             <=> /\ processed[k].person_count > 0
                 /\ k = 1 \/ processed[k - 1].person_count = 0
    /\ \A k \in DOMAIN processed :
          k > 1 => ~(processed[k - 1].entry_event /\ processed[k].entry_event)
    /\ \A k, m \in DOMAIN processed :
          (k < m /\ processed[k].entry_event /\ processed[m].entry_event)
             => \E z \in (k + 1) .. (m - 1) : processed[z].person_count = 0
    /\ previous_person_count
          = IF processed = << >> THEN 0 ELSE processed[Len(processed)].person_count

\* Two entries with an empty frame between them, after a frame with more persons and
\* no entry.
C25_Witness ==
    /\ Len(processed) = 4
    /\ processed[1].entry_event
    /\ processed[2].person_count > processed[1].person_count
    /\ ~processed[2].entry_event
    /\ processed[3].person_count = 0
    /\ processed[4].entry_event

(***************************************************************************)
(* Properties of run_uploader                                              *)
(***************************************************************************)
\* The waits of a call of post_batch_with_retry that made n calls of post_batch
BackoffWaits(n) == [k \in 1 .. (n - 1) |-> RETRY_BACKOFF_SECONDS * k]

\* C27: post_batch_with_retry ends after at most POST_RETRIES + 1 calls of post_batch;
\* it returns the response of the first call that does not raise and calls no more
\* after it; it returns None exactly when all POST_RETRIES + 1 calls raised; the wait
\* before attempt k + 1 is RETRY_BACKOFF_SECONDS * k and no wait follows the last
\* failed attempt.
C27_BoundedRetry ==
    /\ [](\A n \in DOMAIN posts :
            LET p == posts[n]
                calls == Len(p.replies)
            IN  /\ calls <= Get(env).POST_RETRIES + 1
                /\ \A k \in 1 .. (calls - 1) : p.replies[k] = "raise"
                /\ IsNone(p.response)
                      <=> /\ calls = Get(env).POST_RETRIES + 1
                          /\ \A k \in 1 .. calls : p.replies[k] = "raise"
                /\ ~IsNone(p.response)
                      => /\ p.replies[calls] # "raise"
                         /\ p.response = Some(p.replies[calls])
                /\ p.waits = BackoffWaits(calls))
    /\ [](~IsNone(posting) => Len(Get(posting).replies) <= Get(env).POST_RETRIES + 1)
    /\ <>(pc = "posted")

\* With POST_RETRIES = 2 two calls raised and the third returned a response, after waits
\* of 1.5 s and 3 s.
C27_Witness ==
    /\ pc = "posted"
    /\ Get(env).POST_RETRIES = 2
    /\ posts[1].replies = << "raise", "raise", "object" >>
    /\ posts[1].waits = << 15, 30 >>
    /\ posts[1].response = Some("object")

\* Calls of post_batch_with_retry, returned or running, whose batch holds the frame f
PostsOf(f) ==
    Cardinality({ n \in DOMAIN posts : \E k \in DOMAIN posts[n].batch : posts[n].batch[k] = f })
    + (IF ~IsNone(posting) /\ \E k \in DOMAIN Get(posting).batch : Get(posting).batch[k] = f
       THEN 1 ELSE 0)

\* Calls of post_batch_with_retry, returned or running, made with the batch b
PostsWith(b) ==
    Cardinality({ n \in DOMAIN posts : posts[n].batch = b })
    + (IF ~IsNone(posting) /\ Get(posting).batch = b THEN 1 ELSE 0)

\* Frames of the batches among the first n posts that came back with a response
RECURSIVE SentIn(_)
SentIn(n) ==
    IF n = 0 THEN 0
    ELSE SentIn(n - 1) + (IF IsNone(posts[n].response) THEN 0 ELSE Len(posts[n].batch))

\* C26: once a stop signal has been delivered during the capture loop, the loop ends at
\* its next test of should_stop; a non-empty batch pending at the end of the loop is
\* posted, with retry, exactly once before run_uploader ends; the finalize request is
\* made only after that last post and only with total_sent_frames > 0.
C26_StopFlushesOnce ==
    /\ [][ /\ (pc = "while" /\ should_stop) => pc' = "finally"
           /\ (should_stop /\ reads' # reads) => pc = "cap_read" ]_vars
    /\ []( (pc = "stopped" /\ ~IsNone(loop_exit) /\ Get(loop_exit).stop
              /\ Get(loop_exit).batch # << >>)
           => PostsWith(Get(loop_exit).batch) = 1 )
    /\ []( ~IsNone(finalized)
           => /\ Get(finalized) = Len(posts)
              /\ IsNone(posting)
              /\ total_sent_frames > 0 )

\* C28: every frame appended to the pending batch is passed to post_batch_with_retry in
\* exactly one batch, however the loop ends; every batch passed holds between 1 and
\* BATCH_SIZE frames; a batch whose post failed after all retries is not queued again;
\* total_sent_frames is the sum of the sizes of the batches whose post returned a
\* response.
C28_EveryFrameInOneBatch ==
    /\ \A k \in DOMAIN appended :
          /\ PostsOf(appended[k]) <= 1
          /\ pc = "stopped" => PostsOf(appended[k]) = 1
          /\ PostsOf(appended[k]) = 0 => \E m \in DOMAIN batch : batch[m] = appended[k]
          /\ (PostsOf(appended[k]) = 1 /\ pc \in {"while", "cap_read"})
                => \A m \in DOMAIN batch : batch[m] # appended[k]
    /\ \A n \in DOMAIN posts :
          /\ Len(posts[n].batch) >= 1
          /\ Len(posts[n].batch) <= Get(env).BATCH_SIZE
    /\ total_sent_frames = SentIn(IF pc = "posted" THEN Len(posts) - 1 ELSE Len(posts))

(***************************************************************************)
(* Properties of the crossings of one track                                *)
(***************************************************************************)
CrossingsOf(t, rid) == GetOr(Get(crossings), << t, rid >>, << >>)

\* Number of the events e in the sequence s
Occurrences(s, e) == Cardinality({ k \in DOMAIN s : s[k] = e })

\* C29: for one track and one boundary, the counter increases made since track memory
\* was last cleared alternate strictly between entered and left, so entered - left of
\* that track for that boundary stays within {-1, 0, +1}; while nothing has been
\* cleared, the increases recorded for a boundary add up to its counters.
C29_CrossingsAlternate ==
    ~IsNone(crossings) =>
        /\ \A key \in DOMAIN Get(crossings) :
              LET s == Get(crossings)[key]
              IN  /\ \A k \in 1 .. (Len(s) - 1) : s[k] # s[k + 1]
                  /\ Occurrences(s, "entered") - Occurrences(s, "left") \in {-1, 0, 1}
        /\ ~IsNone(trace) =>
              \A k \in DOMAIN rooms :
                  /\ room_stats[rooms[k].room_id].entered
                        = SumOver([t \in TrackIds |->
                                      Occurrences(CrossingsOf(t, rooms[k].room_id), "entered")])
                  /\ room_stats[rooms[k].room_id].left
                        = SumOver([t \in TrackIds |->
                                      Occurrences(CrossingsOf(t, rooms[k].room_id), "left")])

\* A track that crossed one boundary three times: in, out and in again.
C29_Witness ==
    /\ ~IsNone(crossings)
    /\ \E key \in DOMAIN Get(crossings) :
         Get(crossings)[key] = << "entered", "left", "entered" >>


(***************************************************************************)
(* The package against people_counter.py                                   *)
(***************************************************************************)

\* C30: the loop of run_people_counter and the loop of main() of people_counter.py,
\* given the same arguments, frames, detections and tracks, hold the same active
\* boundary list, the same stored side of every track for every boundary and the same
\* entered and left counters after every frame, and the two side_of_gate functions
\* classify every sample alike.
C30_LoopsEquivalent ==
    /\ pc \in {"read", "summary", "done"} =>
          /\ legacy.rooms = rooms
          /\ legacy.track_states = track_states
          /\ legacy.room_stats = room_stats
    /\ ~IsNone(step) =>
          Get(step).curr_side =
              legacy_side_of_gate(Get(step).foot[1], Get(step).foot[2], Get(step).room,
                                  Get(step).room.line_margin)

\* After a frame on which a refresh ran, both loops hold a counted crossing and a
\* stored side.
C30_Witness ==
    /\ pc = "read"
    /\ frame_index > 0
    /\ passes_run >= 2
    /\ legacy.rooms # << >>
    /\ \E rid \in DOMAIN legacy.room_stats :
          legacy.room_stats[rid].entered + legacy.room_stats[rid].left > 0
    /\ \E tid \in DOMAIN legacy.track_states : legacy.track_states[tid] # EmptyMap

====
